---------------------------- MODULE Spec2Model ----------------------------
(***************************************************************************)
(* A model of the REST-API-to-MCP tools generator: the specification      *)
(* parser and the manifest builder (tools_generator/services.py,           *)
(* SwaggerParser and YAMLGenerator), the manifest file written and read as *)
(* YAML, and the three dispatchers that execute a manifest's tools         *)
(* (mcp_server/services.py MCPServer, mcp_server/mcp_server_stdio.py       *)
(* MCPRestApiServer and mcp_server/mcp_server_fastmcp.py                   *)
(* FastMCPRestApiServer).                                                  *)
(*                                                                         *)
(* Strings the code takes apart (paths, URLs, methods, operation ids, tool *)
(* names) are sequences of one-character strings.  Strings the code only   *)
(* passes on (descriptions, argument names and values) are TLA+ strings;   *)
(* a Python scalar is written as its JSON text ("42", "-1").               *)
(***************************************************************************)
EXTENDS Naturals, Integers, Sequences, FiniteSets, TLC

VARIABLES
    parser,           \* the SwaggerParser: its spec (None before a fetch stored one)
    yaml_file,        \* the manifest file save_yaml_file wrote, or NoFile
    self_api_config,  \* YAMLGenerator.api_config, EmptyDict where there is no generator
    endpoints,        \* YAMLGenerator.endpoints: the operations handed to the generator
    yaml_structure,   \* the manifest generate_yaml_structure returned, or NotGenerated
    server,           \* the dispatcher class this process runs, "none" before it loads
    yaml_data,        \* the dispatcher's loaded manifest (self.yaml_data), or NotLoaded
    config,           \* the dispatcher's configuration (self.config), or EmptyDict
    tools,            \* the dispatcher's tool table (MCPServer.tools / tools_instances)
    pc,               \* "new" (constructed), "fetched", "refetched", "extracted",
                      \* "generated", "saved",
                      \* "loaded", "idle" (serving), "returned", "listed"
    call,             \* the call in hand: variant, tool_name, arguments, backend
    request,          \* the HTTP request the call handed to the HTTP library
    reply,            \* what the call gave its caller: an envelope or a raised exception
    db,               \* the database: the rows of APIConfiguration, GeneratedYAMLFile,
                      \* APIEndpoint and MCPServerInstance
    mcp_registry      \* mcp_registry.servers of mcp_server/views.py: server_name -> MCPServer

vars == <<parser, yaml_file, self_api_config, endpoints, yaml_structure, server, yaml_data,
          config, tools, pc, call, request, reply, db, mcp_registry>>

-----------------------------------------------------------------------------
(* Bounds of the model *)

\* the longest list of operations handed to the generator
MaxOps == 2
\* the longest tools list of a manifest a dispatcher loads
MaxTools == 2

-----------------------------------------------------------------------------
(* Python strings and dictionaries *)

LowerLetters == <<"a","b","c","d","e","f","g","h","i","j","k","l","m",
                  "n","o","p","q","r","s","t","u","v","w","x","y","z">>
UpperLetters == <<"A","B","C","D","E","F","G","H","I","J","K","L","M",
                  "N","O","P","Q","R","S","T","U","V","W","X","Y","Z">>

\* str.upper() of one character
UpperChar(c) ==
    IF \E i \in 1..Len(LowerLetters) : LowerLetters[i] = c
    THEN UpperLetters[CHOOSE i \in 1..Len(LowerLetters) : LowerLetters[i] = c]
    ELSE c

\* str.lower() of one character
LowerChar(c) ==
    IF \E i \in 1..Len(UpperLetters) : UpperLetters[i] = c
    THEN LowerLetters[CHOOSE i \in 1..Len(UpperLetters) : UpperLetters[i] = c]
    ELSE c

\* str.upper()
Upper(s) == [i \in 1..Len(s) |-> UpperChar(s[i])]

\* str.lower()
Lower(s) == [i \in 1..Len(s) |-> LowerChar(s[i])]

\* str.capitalize(): the first character upper-cased, every other one lower-cased
Capitalize(s) ==
    [i \in 1..Len(s) |-> IF i = 1 THEN UpperChar(s[i]) ELSE LowerChar(s[i])]

\* str.startswith(prefix)
StartsWith(s, prefix) ==
    /\ Len(prefix) <= Len(s)
    /\ SubSeq(s, 1, Len(prefix)) = prefix

\* str.rstrip(c)
RECURSIVE RStrip(_, _)
RStrip(s, c) ==
    IF s # <<>> /\ s[Len(s)] = c THEN RStrip(SubSeq(s, 1, Len(s) - 1), c) ELSE s

\* str.split(sep) for a one-character separator: Len = number of separators + 1
RECURSIVE Split(_, _)
Split(s, sep) ==
    IF \A i \in 1..Len(s) : s[i] # sep
    THEN <<s>>
    ELSE LET k == CHOOSE i \in 1..Len(s) :
                      s[i] = sep /\ \A j \in 1..(i - 1) : s[j] # sep
         IN  <<SubSeq(s, 1, k - 1)>> \o Split(SubSeq(s, k + 1, Len(s)), sep)

\* Python's None among strings (argument values, type names)
None == "None"

\* how a Python call ends
Return(value) == [kind |-> "return", value |-> value]
Raise(exc) == [kind |-> "raise", exc |-> exc]

\* dict.get(key, default) on a dictionary whose order does not matter
Get(d, key, default) == IF key \in DOMAIN d THEN d[key] ELSE default

\* the empty dict {} and the empty list []
EmptyDict == <<>>

\* a JSON array (a Python list met as a JSON value)
JsonList(items) == [items |-> items]

\* Python's falsiness of a dict, a list or a string taken apart
IsEmpty(d) == DOMAIN d = {}

\* An insertion-ordered dict is a sequence of [key, value] entries.
\* d[key] = value: an existing key keeps its place, a new key goes last
DictSet(d, key, value) ==
    IF \E i \in 1..Len(d) : d[i].key = key
    THEN [i \in 1..Len(d) |-> IF d[i].key = key THEN [key |-> key, value |-> value] ELSE d[i]]
    ELSE Append(d, [key |-> key, value |-> value])

\* list(d.keys())
DictKeys(d) == [i \in 1..Len(d) |-> d[i].key]

\* x in a_list
InList(x, list) == \E i \in 1..Len(list) : list[i] = x

-----------------------------------------------------------------------------
(* The operations handed to the generator: what SwaggerParser.extract_endpoints *)
(* returns for an operation of the source specification                         *)

GET == <<"G","E","T">>
POST == <<"P","O","S","T">>
PUT == <<"P","U","T">>
DELETE == <<"D","E","L","E","T","E">>
PATCH == <<"P","A","T","C","H">>

PetPath == <<"/","p","e","t">>
PetIdPath == <<"/","p","e","t","/","{","p","e","t","I","d","}">>
PetSlashPath == <<"/","p","e","t","/">>
IdOnlyPath == <<"/","{","i","d","}">>
OrderItemsPath == <<"/","s","t","o","r","e","/","o","r","d","e","r","I","t","e","m","s">>

\* a parameter as _extract_parameters normalises it
Param(name, in, required, type) ==
    [name |-> name, in |-> in, description |-> "", required |-> required,
     schema |-> EmptyDict, type |-> type]

\* an operation as _extract_operation_info builds it
Operation(path, method, operation_id, summary, description, parameters, request_body) ==
    [path |-> path, method |-> method, operation_id |-> operation_id,
     summary |-> summary, description |-> description, tags |-> <<>>,
     parameters |-> parameters, request_body |-> request_body,
     responses |-> EmptyDict, security |-> <<>>]

\* the request body of an operation that takes a JSON object {name, status}
PetBody ==
    [description |-> "", required |-> TRUE, content_types |-> <<"application/json">>,
     schema |-> [type |-> "object",
                 properties |-> <<[key |-> "name",
                                   value |-> [type |-> "string", description |-> ""]],
                                  [key |-> "status",
                                   value |-> [type |-> "string", description |-> ""]]>>,
                 required |-> <<"name">>]]

GetPetById ==
    Operation(PetIdPath, GET, <<"g","e","t","P","e","t","B","y","I","d">>,
              "Find pet by ID", "", <<Param("petId", "path", TRUE, "integer")>>, EmptyDict)
PostPet == Operation(PetPath, POST, <<>>, "Add a pet", "Adds a pet to the store", <<>>, PetBody)
GetPet ==
    Operation(PetPath, GET, <<>>, "", "",
              <<Param("status", "query", FALSE, "string")>>, EmptyDict)
DeletePet ==
    Operation(PetIdPath, DELETE, <<>>, "Deletes a pet", "",
              <<Param("api_key", "header", FALSE, "string"),
                Param("petId", "path", TRUE, "integer")>>, EmptyDict)
FindPet ==
    Operation(PetIdPath, GET, <<>>, "", "",
              <<Param("petId", "path", TRUE, "integer")>>, EmptyDict)
GetById == Operation(IdOnlyPath, GET, <<>>, "", "", <<>>, EmptyDict)
GetPetSlash == Operation(PetSlashPath, GET, <<>>, "", "", <<>>, EmptyDict)
GetOrderItems == Operation(OrderItemsPath, GET, <<>>, "", "", <<>>, EmptyDict)
PatchPet ==
    Operation(PetIdPath, PATCH, <<"x">>, "", "",
              <<Param("petId", "path", TRUE, "integer"),
                Param("client_key", "query", TRUE, "string")>>, EmptyDict)

\* a query parameter declared before the path parameter, a query parameter of the
\* path parameter's name, one named like an identity parameter, and a JSON body
PutPet ==
    Operation(PetIdPath, PUT, <<>>, "Update a pet", "",
              <<Param("limit", "query", TRUE, "integer"),
                Param("petId", "path", TRUE, "integer"),
                Param("petId", "query", TRUE, "string"),
                Param("client_key", "query", TRUE, "string")>>, PetBody)

OperationPool ==
    {GetPetById, PostPet, GetPet, DeletePet, FindPet, GetById, GetPetSlash, GetOrderItems,
     PatchPet, PutPet}

\* the lists of at most n elements of S
ListsUpTo(S, n) == UNION {[1..k -> S] : k \in 0..n}

\* YAMLGenerator.api_config
ApiConfig(api_base_url) ==
    [name |-> "Petstore", description |-> "", api_base_url |-> api_base_url,
     swagger_url |-> "http://x/swagger.json", auth_type |-> "none", auth_config |-> EmptyDict]

BaseUrl == <<"h","t","t","p",":","/","/","x","/","v","2">>

-----------------------------------------------------------------------------
(* YAMLGenerator: the manifest builder *)

ToolSuffix == <<"T","o","o","l">>

\* [part for part in parts if part and not part.startswith('{')]
RECURSIVE path_parts(_)
path_parts(parts) ==
    IF parts = <<>> THEN <<>>
    ELSE (IF Head(parts) # <<>> /\ ~StartsWith(Head(parts), <<"{">>)
          THEN <<Head(parts)>> ELSE <<>>) \o path_parts(Tail(parts))

\* _generate_tool_name taking path_parts[0], the first resource of the path
_generate_tool_name_first_part(endpoint) ==
    LET operation_id == Get(endpoint, "operation_id", <<>>)
    IN  IF ~IsEmpty(operation_id)
        THEN <<UpperChar(operation_id[1])>> \o Tail(operation_id) \o ToolSuffix
        ELSE LET method == Lower(endpoint.method)
                 parts == path_parts(Split(endpoint.path, "/"))
                 resource == IF parts # <<>> THEN parts[1]
                             ELSE <<"r","e","s","o","u","r","c","e">>
             IN  Capitalize(method) \o Capitalize(resource) \o ToolSuffix

_generate_tool_name(endpoint) ==
    LET operation_id == Get(endpoint, "operation_id", <<>>)
    IN  IF ~IsEmpty(operation_id)
        THEN <<UpperChar(operation_id[1])>> \o Tail(operation_id) \o ToolSuffix
        ELSE LET method == Lower(endpoint.method)
                 parts == path_parts(Split(endpoint.path, "/"))
                 resource == IF parts # <<>> THEN parts[Len(parts)]
                             ELSE <<"r","e","s","o","u","r","c","e">>
             IN  Capitalize(method) \o Capitalize(resource) \o ToolSuffix

\* one pass of _generate_tool_parameters over the parameters declared `in` a place
RECURSIVE add_parameters(_, _, _)
add_parameters(parameters, params, in) ==
    IF params = <<>> THEN parameters
    ELSE LET param == Head(params)
             next == IF param.in = in
                     THEN [parameters EXCEPT
                             !.properties =
                                 DictSet(@, param.name,
                                         [type |-> Get(param, "type", "string"),
                                          description |-> Get(param, "description", "")]),
                             !.required =
                                 IF Get(param, "required", FALSE)
                                 THEN Append(@, param.name) ELSE @]
                     ELSE parameters
         IN  add_parameters(next, Tail(params), in)

\* the loop of _add_request_body_parameters over schema.properties
RECURSIVE add_body_properties(_, _, _)
add_body_properties(parameters, properties, required) ==
    IF properties = <<>> THEN parameters
    ELSE LET prop == Head(properties)
             next == [parameters EXCEPT
                        !.properties =
                            DictSet(@, prop.key,
                                    [type |-> Get(prop.value, "type", "string"),
                                     description |-> Get(prop.value, "description", "")]),
                        !.required =
                            IF InList(prop.key, required) THEN Append(@, prop.key) ELSE @]
         IN  add_body_properties(next, Tail(properties), required)

_add_request_body_parameters(parameters, schema) ==
    IF Get(schema, "type", "") = "object"
    THEN add_body_properties(parameters, Get(schema, "properties", <<>>),
                             Get(schema, "required", <<>>))
    ELSE parameters

\* _generate_tool_parameters with the two passes exchanged: query parameters
\* first, then path parameters
_generate_tool_parameters_query_first(endpoint) ==
    LET parameters == [type |-> "object", properties |-> <<>>, required |-> <<>>]
        with_query == add_parameters(parameters, Get(endpoint, "parameters", <<>>), "query")
        with_path == add_parameters(with_query, Get(endpoint, "parameters", <<>>), "path")
        request_body == Get(endpoint, "request_body", EmptyDict)
    IN  IF ~IsEmpty(request_body) /\ ~IsEmpty(Get(request_body, "schema", EmptyDict))
        THEN _add_request_body_parameters(with_path, request_body.schema)
        ELSE with_path

_generate_tool_parameters(endpoint) ==
    LET parameters == [type |-> "object", properties |-> <<>>, required |-> <<>>]
        with_path == add_parameters(parameters, Get(endpoint, "parameters", <<>>), "path")
        with_query == add_parameters(with_path, Get(endpoint, "parameters", <<>>), "query")
        request_body == Get(endpoint, "request_body", EmptyDict)
    IN  IF ~IsEmpty(request_body) /\ ~IsEmpty(Get(request_body, "schema", EmptyDict))
        THEN _add_request_body_parameters(with_query, request_body.schema)
        ELSE with_query

_generate_tool_info(endpoint) ==
    [name |-> _generate_tool_name(endpoint),
     description |-> IF Get(endpoint, "description", "") # ""
                     THEN endpoint.description ELSE Get(endpoint, "summary", ""),
     method |-> endpoint.method,
     path |-> endpoint.path,
     operation_id |-> Get(endpoint, "operation_id", <<>>),
     parameters |-> _generate_tool_parameters(endpoint),
     request_body |-> Get(endpoint, "request_body", EmptyDict),
     responses |-> Get(endpoint, "responses", EmptyDict),
     tags |-> Get(endpoint, "tags", <<>>)]

generate_yaml_structure(api_config, eps) ==
    [api_info |-> [name |-> Get(api_config, "name", "Generated API Tools"),
                   description |-> Get(api_config, "description", ""),
                   base_url |-> Get(api_config, "api_base_url", <<>>),
                   swagger_url |-> Get(api_config, "swagger_url", ""),
                   auth_type |-> Get(api_config, "auth_type", "none"),
                   auth_config |-> Get(api_config, "auth_config", EmptyDict)],
     tools |-> [i \in 1..Len(eps) |-> _generate_tool_info(eps[i])]]

-----------------------------------------------------------------------------
(* The manifest file: yaml.dump writes the keys of every mapping in sorted *)
(* order (sort_keys is left at its default), yaml.safe_load reads the      *)
(* mappings in the order of the file                                       *)

\* the keys of the ordered mappings of a manifest, as sorted() orders them
SortedKeys ==
    <<"200", "any", "api_key", "client_key", "entity_key", "file", "ids", "limit", "name",
      "petId", "status", "tags", "user_key">>

\* the place of a key in that order
KeyRank(key) == CHOOSE i \in 1..Len(SortedKeys) : SortedKeys[i] = key

\* the entries of an ordered mapping in the sorted order of their keys
sort_keys(d) ==
    [i \in 1..Len(d) |->
        d[CHOOSE j \in 1..Len(d) :
              Cardinality({k \in 1..Len(d) : KeyRank(d[k].key) < KeyRank(d[j].key)}) = i - 1]]

\* a request body as the file holds it
dump_request_body(request_body) ==
    IF IsEmpty(request_body) \/ IsEmpty(Get(request_body, "schema", EmptyDict))
       \/ "properties" \notin DOMAIN request_body.schema
    THEN request_body
    ELSE [request_body EXCEPT !.schema.properties = sort_keys(@)]

\* a tool entry as the file holds it
dump_tool(tool) ==
    [tool EXCEPT !.parameters.properties = sort_keys(@),
                 !.request_body = dump_request_body(@),
                 !.responses = sort_keys(@)]

\* yaml.dump(yaml_structure, f, default_flow_style=False, allow_unicode=True)
yaml_dump(structure) ==
    [yaml_text_of |-> [structure EXCEPT !.tools = [i \in 1..Len(@) |-> dump_tool(@[i])]],
     written |-> TRUE]

\* yaml.safe_load(f)
yaml_safe_load(file) == file.yaml_text_of

-----------------------------------------------------------------------------
(* The generator's specification: any list of operations, then one build *)

\* the database before any row is written
EmptyDatabase ==
    [APIConfiguration |-> EmptyDict, GeneratedYAMLFile |-> EmptyDict,
     APIEndpoint |-> EmptyDict, MCPServerInstance |-> EmptyDict]

\* SwaggerParser.__init__: self.spec = None
NewParser == [spec |-> EmptyDict, loaded |-> FALSE]

\* no file at file_path
NoFile == [yaml_text_of |-> EmptyDict, written |-> FALSE]

\* None, where a manifest is expected
NotGenerated == [api_info |-> EmptyDict, tools |-> <<>>, generated |-> FALSE]
NotLoaded == [api_info |-> EmptyDict, tools |-> <<>>, loaded |-> FALSE]

\* the configured base URL: without and with a trailing slash, and left empty
ApiConfigs == {ApiConfig(BaseUrl), ApiConfig(BaseUrl \o <<"/">>), ApiConfig(<<>>)}

GenInit ==
    /\ db = EmptyDatabase
    /\ mcp_registry = EmptyDict
    /\ parser = NewParser
    /\ yaml_file = NoFile
    /\ self_api_config \in ApiConfigs
    /\ endpoints \in ListsUpTo(OperationPool, MaxOps)
    /\ yaml_structure = NotGenerated
    /\ server = "none"
    /\ yaml_data = NotLoaded
    /\ config = EmptyDict
    /\ tools = EmptyDict
    /\ pc = "new"
    /\ call = EmptyDict
    /\ request = EmptyDict
    /\ reply = EmptyDict

\* YAMLGenerator(api_config, endpoints).generate_yaml_structure()
GenerateYamlStructure ==
    /\ pc = "new"
    /\ yaml_structure' = generate_yaml_structure(self_api_config, endpoints)
    /\ pc' = "generated"
    /\ UNCHANGED <<parser, yaml_file, self_api_config, endpoints, server, yaml_data,
                   config, tools, call, request, reply, db, mcp_registry>>

\* YAMLGenerator(api_config, endpoints).save_yaml_file(file_path); it builds the
\* manifest itself, whether or not generate_yaml_structure was called before
SaveYamlFile ==
    /\ pc \in {"new", "generated"}
    /\ yaml_file' = yaml_dump(generate_yaml_structure(self_api_config, endpoints))
    /\ pc' = "saved"
    /\ UNCHANGED <<parser, self_api_config, endpoints, yaml_structure, server, yaml_data,
                   config, tools, call, request, reply, db, mcp_registry>>

\* ToolClassGenerator(file_path).load_yaml_data()
LoadYamlData ==
    /\ pc = "saved"
    /\ yaml_data' = yaml_safe_load(yaml_file)
    /\ pc' = "loaded"
    /\ UNCHANGED <<parser, yaml_file, self_api_config, endpoints, yaml_structure, server,
                   config, tools, call, request, reply, db, mcp_registry>>

GenNext == GenerateYamlStructure \/ SaveYamlFile \/ LoadYamlData

SpecGen == GenInit /\ [][GenNext]_vars

-----------------------------------------------------------------------------
(* SwaggerParser (tools_generator/services.py): fetch, validate, extract *)

\* a version field as the JSON/YAML loader gives it: a string (swagger: "2.0"),
\* a number (swagger: 2.0), or None for a key that is not there
Str(chars) == [str |-> chars]
Float(text) == [float |-> text]
PyNone == [none |-> TRUE]

\* not value, for None, a string or a number other than zero
Falsy(value) == "none" \in DOMAIN value \/ ("str" \in DOMAIN value /\ value.str = <<>>)

\* a value that has str.startswith
IsStr(value) == "str" \in DOMAIN value

\* f"array[{items_type}]"
ArrayOf(items_type) ==
    CASE items_type = "string" -> "array[string]"
      [] items_type = "integer" -> "array[integer]"
      [] items_type = "number" -> "array[number]"
      [] OTHER -> "array[?]"

\* SwaggerParser._get_parameter_type
_get_parameter_type(param) ==
    LET schema == Get(param, "schema", EmptyDict)
        schema_type == Get(schema, "type", None)
        param_type == IF schema_type \in {None, ""}
                      THEN Get(param, "type", "string") ELSE schema_type
        items_schema == Get(schema, "items", EmptyDict)
        schema_items_type == Get(items_schema, "type", "string")
        items_obj == Get(param, "items", EmptyDict)
        items_type == IF schema_items_type \in {None, ""}
                      THEN Get(items_obj, "type", "string") ELSE schema_items_type
    IN  IF param_type = "array" THEN ArrayOf(items_type)
        ELSE IF param_type = "file" THEN "file"
        ELSE IF param_type \in {None, ""} THEN "string" ELSE param_type

\* SwaggerParser._extract_parameters
_extract_parameters(parameters) ==
    [i \in 1..Len(parameters) |->
        [name |-> Get(parameters[i], "name", ""),
         in |-> Get(parameters[i], "in", ""),
         description |-> Get(parameters[i], "description", ""),
         required |-> Get(parameters[i], "required", FALSE),
         schema |-> Get(parameters[i], "schema", EmptyDict),
         type |-> _get_parameter_type(parameters[i])]]

\* content.get('application/json', {}) on the ordered dict of media types
json_content(content) ==
    IF \E i \in 1..Len(content) : content[i].key = "application/json"
    THEN content[CHOOSE i \in 1..Len(content) : content[i].key = "application/json"].value
    ELSE EmptyDict

\* SwaggerParser._extract_request_body
_extract_request_body(request_body) ==
    IF IsEmpty(request_body) THEN EmptyDict
    ELSE LET content == Get(request_body, "content", <<>>)
         IN  [description |-> Get(request_body, "description", ""),
              required |-> Get(request_body, "required", FALSE),
              content_types |-> DictKeys(content),
              schema |-> Get(json_content(content), "schema", EmptyDict)]

\* SwaggerParser._extract_responses
_extract_responses(responses) ==
    [i \in 1..Len(responses) |->
        [key |-> responses[i].key,
         value |-> [description |-> Get(responses[i].value, "description", ""),
                    content |-> Get(responses[i].value, "content", EmptyDict),
                    headers |-> Get(responses[i].value, "headers", EmptyDict)]]]

\* SwaggerParser._extract_operation_info
_extract_operation_info(path, method, operation) ==
    [path |-> path,
     method |-> Upper(method),
     operation_id |-> Get(operation, "operationId", <<>>),
     summary |-> Get(operation, "summary", ""),
     description |-> Get(operation, "description", ""),
     tags |-> Get(operation, "tags", <<>>),
     parameters |-> _extract_parameters(Get(operation, "parameters", <<>>)),
     request_body |-> _extract_request_body(Get(operation, "requestBody", EmptyDict)),
     responses |-> _extract_responses(Get(operation, "responses", <<>>)),
     security |-> Get(operation, "security", <<>>)]

\* ['get', 'post', 'put', 'delete', 'patch', 'head', 'options']
ExtractedMethods ==
    {Lower(GET), Lower(POST), Lower(PUT), Lower(DELETE), Lower(PATCH),
     <<"h","e","a","d">>, <<"o","p","t","i","o","n","s">>}

\* for method, operation in methods.items(): ...
RECURSIVE extract_path_item(_, _)
extract_path_item(path, methods) ==
    IF methods = <<>> THEN <<>>
    ELSE (IF Lower(Head(methods).key) \in ExtractedMethods
          THEN <<_extract_operation_info(path, Head(methods).key, Head(methods).value)>>
          ELSE <<>>) \o extract_path_item(path, Tail(methods))

\* for path, methods in paths.items(): ...
RECURSIVE extract_paths(_)
extract_paths(paths) ==
    IF paths = <<>> THEN <<>>
    ELSE extract_path_item(Head(paths).key, Head(paths).value) \o extract_paths(Tail(paths))

\* SwaggerParser.extract_endpoints
extract_endpoints(self) ==
    IF ~self.loaded \/ IsEmpty(self.spec)
    THEN Raise("Swagger spec not loaded. Call fetch_swagger_spec() first.")
    ELSE Return(extract_paths(Get(self.spec, "paths", <<>>)))

\* SwaggerParser._basic_spec_validation; what it only logs is left out
_basic_spec_validation(body) ==
    IF body.content # "object" THEN Raise("Specification must be a JSON object")
    ELSE LET spec == body.value
             swagger_version == Get(spec, "swagger", PyNone)
             openapi_version == Get(spec, "openapi", PyNone)
         IN  IF Falsy(swagger_version) /\ Falsy(openapi_version)
             THEN Raise("Missing 'swagger' or 'openapi' version field")
             ELSE IF IsEmpty(Get(spec, "info", EmptyDict))
             THEN Raise("Missing 'info' section")
             ELSE IF ~Falsy(swagger_version) /\ ~IsStr(swagger_version)
             THEN Raise("AttributeError")
             ELSE IF ~Falsy(openapi_version) /\ ~IsStr(openapi_version)
             THEN Raise("AttributeError")
             ELSE Return(None)

\* try: if SWAGGER_VALIDATOR_AVAILABLE: validate_spec(spec), with no except
validate_spec_if_available(validator) ==
    IF validator.available /\ validator.raises # None
    THEN Raise(validator.raises) ELSE Return(None)

\* the strict validation of fetch_swagger_spec: validate_spec when the validator
\* was imported; except (ValidationError, Exception) logs and goes on
strict_validation(validator) ==
    LET attempt == IF validator.available /\ validator.raises # None
                   THEN Raise(validator.raises) ELSE Return(None)
    IN  IF attempt.kind = "raise" THEN Return(None) ELSE attempt

\* fetch_swagger_spec with self.spec = spec moved up, ahead of the validations
fetch_swagger_spec_storing_first(self, fetched, validator) ==
    LET failed(message) == [parser |-> self, outcome |-> Raise(message)]
        stored == [spec |-> fetched.body.value, loaded |-> TRUE]
        basic == _basic_spec_validation(fetched.body)
        strict == strict_validation(validator)
    IN  IF fetched.kind = "unreachable" \/ fetched.status >= 400
        THEN failed("Failed to fetch Swagger spec")
        ELSE IF fetched.body.content = "invalid"
        THEN failed("Error parsing Swagger spec")
        ELSE IF basic.kind = "raise" \/ strict.kind = "raise"
        THEN [parser |-> IF fetched.body.content = "text" THEN self ELSE stored,
              outcome |-> Raise("Error parsing Swagger spec")]
        ELSE [parser |-> stored, outcome |-> Return(fetched.body.value)]

\* SwaggerParser.fetch_swagger_spec on what requests.get(self.swagger_url) gives
\* and on what the strict validator would say
fetch_swagger_spec(self, fetched, validator) ==
    LET failed(message) == [parser |-> self, outcome |-> Raise(message)]
        basic == _basic_spec_validation(fetched.body)
        strict == strict_validation(validator)
    IN  IF fetched.kind = "unreachable" \/ fetched.status >= 400
        THEN failed("Failed to fetch Swagger spec")
        ELSE IF fetched.body.content = "invalid"
        THEN failed("Error parsing Swagger spec")
        ELSE IF basic.kind = "raise" THEN failed("Error parsing Swagger spec")
        ELSE IF strict.kind = "raise" THEN failed("Error parsing Swagger spec")
        ELSE [parser |-> [spec |-> fetched.body.value, loaded |-> TRUE],
              outcome |-> Return(fetched.body.value)]

-----------------------------------------------------------------------------
(* The parser's specification: a parser fetches a document, perhaps *)
(* another one, and then extracts the operations                     *)

\* the longest paths object of a fetched document
MaxPaths == 2

\* parameters as a source document declares them: Swagger 2.0 puts type and
\* items on the parameter, OpenAPI 3.x under schema
RawPetId == [name |-> "petId", in |-> "path", required |-> TRUE, type |-> "integer"]
RawStatus == [name |-> "status", in |-> "query", schema |-> [type |-> "string"]]
RawTags ==
    [name |-> "tags", in |-> "query",
     schema |-> [type |-> "array", items |-> [type |-> "integer"]]]
RawIds == [name |-> "ids", in |-> "query", type |-> "array", items |-> [type |-> "integer"]]
RawAny == [name |-> "any", in |-> "query", type |-> "array"]
RawFile == [name |-> "file", in |-> "formData", type |-> "file"]

\* operation objects of a source document
RawListPets ==
    [operationId |-> <<"l","i","s","t","P","e","t","s">>, summary |-> "List pets",
     parameters |-> <<RawStatus, RawTags>>,
     responses |-> <<[key |-> "200", value |-> [description |-> "ok"]]>>]
RawAddPet ==
    [summary |-> "Add a pet",
     requestBody |-> [required |-> TRUE,
                      content |-> <<[key |-> "application/json",
                                     value |-> [schema |-> PetBody.schema]]>>]]
RawFindPet == [parameters |-> <<RawPetId, RawIds, RawAny, RawFile>>]

\* path items: ordered maps from a key to an operation object, or to something
\* else under a key that names no operation
PathItems ==
    {<<[key |-> Lower(GET), value |-> RawListPets],
       [key |-> Lower(POST), value |-> RawAddPet]>>,
     <<[key |-> <<"p","a","r","a","m","e","t","e","r","s">>, value |-> JsonList(<<RawPetId>>)],
       [key |-> Lower(GET), value |-> RawFindPet],
       [key |-> <<"t","r","a","c","e">>, value |-> RawFindPet]>>,
     <<[key |-> DELETE, value |-> RawFindPet]>>,
     <<[key |-> Lower(GET), value |-> RawFindPet],
       [key |-> GET, value |-> RawListPets]>>}

\* the paths objects: at most MaxPaths entries, no path twice
PathsObjects ==
    {paths \in ListsUpTo({[key |-> path, value |-> item] :
                             path \in {PetPath, PetIdPath, OrderItemsPath},
                             item \in PathItems}, MaxPaths) :
        \A i, j \in 1..Len(paths) : i # j => paths[i].key # paths[j].key}

\* the version fields and the info members a document may come with
VersionFields ==
    {[swagger |-> Str(<<"2",".","0">>)],
     [openapi |-> Str(<<"3",".","0",".","1">>)],
     [swagger |-> Float("2.0")],
     [swagger |-> Str(<<>>)],
     EmptyDict}
InfoMembers == {[info |-> [title |-> "Petstore", version |-> "1.0"]], [info |-> EmptyDict], EmptyDict}

\* the documents a swagger_url may serve: Swagger 2.0 and OpenAPI 3.x documents
\* with any paths object, and documents with or without each top-level member
Documents ==
    {version @@ [info |-> [title |-> "Petstore", version |-> "1.0"]] @@ paths :
        version \in {[swagger |-> Str(<<"2",".","0">>)],
                     [openapi |-> Str(<<"3",".","0",".","1">>)]},
        paths \in {EmptyDict} \cup {[paths |-> p] : p \in PathsObjects}}
    \cup {version @@ info @@ paths :
             version \in VersionFields, info \in InfoMembers,
             paths \in {EmptyDict,
                        [paths |-> <<[key |-> PetPath,
                                      value |-> <<[key |-> Lower(GET),
                                                   value |-> RawListPets]>>]>>]}}

\* what requests.get(self.swagger_url) gives: no answer, or a status and a body
\* that is no JSON and no YAML, a YAML scalar, a JSON array, or a JSON object
FetchedResponses ==
    {[kind |-> "unreachable"],
     [kind |-> "response", status |-> 404, body |-> [content |-> "text"]],
     [kind |-> "response", status |-> 200, body |-> [content |-> "invalid"]],
     [kind |-> "response", status |-> 200, body |-> [content |-> "text"]],
     [kind |-> "response", status |-> 200,
      body |-> [content |-> "array", value |-> JsonList(<<>>)]]}
    \cup {[kind |-> "response", status |-> 200,
           body |-> [content |-> "object", value |-> document]] : document \in Documents}

\* the strict validator: not importable, or imported and passing the document or
\* raising on it
Validators ==
    {[available |-> FALSE, raises |-> None],
     [available |-> TRUE, raises |-> None],
     [available |-> TRUE, raises |-> "SwaggerValidationError"]}

ParseInit ==
    /\ db = EmptyDatabase
    /\ mcp_registry = EmptyDict
    /\ parser = NewParser
    /\ yaml_file = NoFile
    /\ self_api_config = EmptyDict
    /\ endpoints = <<>>
    /\ yaml_structure = NotGenerated
    /\ server = "none"
    /\ yaml_data = NotLoaded
    /\ config = EmptyDict
    /\ tools = EmptyDict
    /\ pc = "new"
    /\ call = EmptyDict
    /\ request = EmptyDict
    /\ reply = EmptyDict

\* parser.fetch_swagger_spec() on a fresh parser
FetchSwaggerSpec ==
    /\ pc = "new"
    /\ \E fetched \in FetchedResponses, validator \in Validators :
          LET done == fetch_swagger_spec(parser, fetched, validator)
          IN  /\ call' = [fetched |-> fetched, validator |-> validator]
              /\ parser' = done.parser
              /\ reply' = done.outcome
    /\ pc' = "fetched"
    /\ UNCHANGED <<yaml_file, self_api_config, endpoints, yaml_structure, server,
                   yaml_data, config, tools, request, db, mcp_registry>>

\* what the swagger_url gives when it is fetched once more: no answer, an
\* unparsable body, an array, a document without a version field, one without
\* info, and a document with no operations
RefetchedResponses ==
    {[kind |-> "unreachable"],
     [kind |-> "response", status |-> 200, body |-> [content |-> "invalid"]],
     [kind |-> "response", status |-> 200,
      body |-> [content |-> "array", value |-> JsonList(<<>>)]]}
    \cup {[kind |-> "response", status |-> 200,
           body |-> [content |-> "object", value |-> document]] :
             document \in {[info |-> [title |-> "Petstore", version |-> "1.0"]],
                           [openapi |-> Str(<<"3",".","0",".","1">>)],
                           [openapi |-> Str(<<"3",".","0",".","1">>),
                            info |-> [title |-> "Petstore", version |-> "1.0"]]}}

\* parser.fetch_swagger_spec() once more on the same parser
RefetchSwaggerSpec ==
    /\ pc = "fetched"
    /\ \E fetched \in RefetchedResponses, validator \in Validators :
          LET done == fetch_swagger_spec(parser, fetched, validator)
          IN  /\ call' = [fetched |-> fetched, validator |-> validator]
              /\ parser' = done.parser
              /\ reply' = done.outcome
    /\ pc' = "refetched"
    /\ UNCHANGED <<yaml_file, self_api_config, endpoints, yaml_structure, server,
                   yaml_data, config, tools, request, db, mcp_registry>>

\* endpoints = parser.extract_endpoints()
ExtractEndpoints ==
    /\ pc \in {"fetched", "refetched"}
    /\ LET done == extract_endpoints(parser)
       IN  /\ reply' = done
           /\ endpoints' = IF done.kind = "return" THEN done.value ELSE endpoints
    /\ pc' = "extracted"
    /\ UNCHANGED <<parser, yaml_file, self_api_config, yaml_structure, server, yaml_data,
                   config, tools, call, request, db, mcp_registry>>

ParseNext == FetchSwaggerSpec \/ RefetchSwaggerSpec \/ ExtractEndpoints

SpecParse == ParseInit /\ [][ParseNext]_vars

-----------------------------------------------------------------------------
(* What the dispatchers share: Python values, the HTTP library, to_jsonrpc *)

\* ['client_key', 'entity_key', 'user_key']
IdentityKeys == {"client_key", "entity_key", "user_key"}

\* ['POST', 'PUT', 'PATCH']
BodyMethods == {POST, PUT, PATCH}

HttpScheme == <<"h","t","t","p",":","/","/">>

\* json.dumps(value): a text, which json.loads turns back into the value
json_dumps(value) == [json_text_of |-> value]

\* requests.request / httpx.AsyncClient.request: a URL without a scheme is
\* refused before anything is sent, an unreachable backend raises, and any
\* answer of the backend, whatever its status, is returned as a response
http_request(url, backend) ==
    IF ~StartsWith(url, HttpScheme)
    THEN [raised |-> TRUE, exc |-> "MissingSchema", reached |-> FALSE]
    ELSE IF backend.kind = "unreachable"
    THEN [raised |-> TRUE, exc |-> "ConnectionError", reached |-> FALSE]
    ELSE [raised |-> FALSE, reached |-> TRUE,
          status_code |-> backend.status, body |-> backend.body]

\* what the HTTP library puts on the wire: params= and data= leave out a key
\* whose value is None, json= sends it as null
transmitted(encoding, payload) ==
    IF encoding = "json" THEN payload
    ELSE [k \in {k \in DOMAIN payload : payload[k] # None} |-> payload[k]]

\* res.json(): the decoded body, or JSONDecodeError for an empty or non-JSON body
res_json(body) ==
    IF body.content \in {"object", "array"}
    THEN Return(body.value) ELSE Raise("JSONDecodeError")

\* to_jsonrpc with the error member added to the result member instead of
\* replacing it
to_jsonrpc_keeps_result(response, content, id) ==
    IF content # "object" THEN Raise("AttributeError")
    ELSE LET id2 == IF id = None THEN Get(response, "request_id", "-1") ELSE id
             result == [msg |-> Get(response, "msg", ""),
                        data |-> Get(response, "data", JsonList(<<>>)),
                        status |-> Get(response, "status", 200),
                        type |-> Get(response, "type", "json"),
                        total_count |-> Get(response, "total_count", -1)]
         IN  IF ~Get(response, "error", FALSE)
             THEN Return([jsonrpc |-> "2.0", result |-> result, id |-> id2])
             ELSE Return([jsonrpc |-> "2.0", result |-> result,
                          error |-> [code |-> Get(response, "status", 500),
                                     message |-> <<Get(response, "msg", "Internal Server Error")>>,
                                     data |-> Get(response, "data", JsonList(<<>>))],
                          id |-> id2])

\* RestApiTool.to_jsonrpc(response, id); response.get fails on a JSON array
to_jsonrpc(response, content, id) ==
    IF content # "object" THEN Raise("AttributeError")
    ELSE LET id2 == IF id = None THEN Get(response, "request_id", "-1") ELSE id
         IN  IF ~Get(response, "error", FALSE)
             THEN Return([jsonrpc |-> "2.0",
                          result |-> [msg |-> Get(response, "msg", ""),
                                      data |-> Get(response, "data", JsonList(<<>>)),
                                      status |-> Get(response, "status", 200),
                                      type |-> Get(response, "type", "json"),
                                      total_count |-> Get(response, "total_count", -1)],
                          id |-> id2])
             ELSE Return([jsonrpc |-> "2.0",
                          error |-> [code |-> Get(response, "status", 500),
                                     message |-> <<Get(response, "msg", "Internal Server Error")>>,
                                     data |-> Get(response, "data", JsonList(<<>>))],
                          id |-> id2])

\* RestApiTool.get_api_url
get_api_url(self, path) == self.api_base_url \o path

\* data = {...}; for key, value in kwargs.items():
\*     if key not in skip and value is not None: data[key] = value
merge_arguments(data, kwargs, skip) ==
    LET taken == {k \in DOMAIN kwargs : k \notin skip /\ kwargs[k] # None}
    IN  [k \in DOMAIN data \cup taken |-> IF k \in taken THEN kwargs[k] ELSE data[k]]

\* the failure envelope of an except clause
error_envelope(prefix, exc, data, id) ==
    [jsonrpc |-> "2.0",
     error |-> [code |-> 500, message |-> <<prefix, exc>>, data |-> data],
     id |-> id]

-----------------------------------------------------------------------------
(* The parameter schema of a tool (core/tools_base.py RestApiParameters and *)
(* DynamicTool.get_parameters, the same in services.py and the stdio server) *)

\* Property(type=..., description=...)
Property(type, description) == [type |-> type, description |-> description]

\* base.update(extra) on ordered mappings
RECURSIVE dict_update(_, _)
dict_update(base, extra) ==
    IF extra = <<>> THEN base
    ELSE dict_update(DictSet(base, Head(extra).key, Head(extra).value), Tail(extra))

\* RestApiParameters(extra_properties, extra_required)
RestApiParameters(extra_properties, extra_required) ==
    LET base_properties ==
            <<[key |-> "client_key", value |-> Property("string", "Client key")],
              [key |-> "entity_key", value |-> Property("string", "Entity key")],
              [key |-> "user_key", value |-> Property("string", "User key")]>>
        base_required == <<"client_key", "entity_key", "user_key">>
    IN  [type |-> "object",
         properties |-> dict_update(base_properties, extra_properties),
         required |-> base_required \o extra_required]

\* the loop of get_parameters over properties.items()
RECURSIVE extra_parameters(_, _, _)
extra_parameters(properties, required, extra) ==
    IF properties = <<>> THEN extra
    ELSE LET prop_name == Head(properties).key
             prop_info == Head(properties).value
             next == IF prop_name \notin IdentityKeys
                     THEN [properties |->
                               DictSet(extra.properties, prop_name,
                                       Property(Get(prop_info, "type", "string"),
                                                Get(prop_info, "description", ""))),
                           required |-> IF InList(prop_name, required)
                                        THEN Append(extra.required, prop_name)
                                        ELSE extra.required]
                     ELSE extra
         IN  extra_parameters(Tail(properties), required, next)

\* get_parameters handing the manifest's required list on as it is
get_parameters_required_as_listed(parameters) ==
    LET properties == Get(parameters, "properties", <<>>)
        required == Get(parameters, "required", <<>>)
        extra == extra_parameters(properties, required,
                                  [properties |-> <<>>, required |-> <<>>])
    IN  IF properties = <<>> THEN RestApiParameters(<<>>, <<>>)
        ELSE RestApiParameters(extra.properties, required)

\* DynamicTool.get_parameters, on the parameters of the tool's manifest entry
get_parameters(parameters) ==
    LET properties == Get(parameters, "properties", <<>>)
        required == Get(parameters, "required", <<>>)
        extra == extra_parameters(properties, required,
                                  [properties |-> <<>>, required |-> <<>>])
    IN  IF properties = <<>> THEN RestApiParameters(<<>>, <<>>)
        ELSE RestApiParameters(extra.properties, extra.required)

\* the keys of a dispatcher's tool table in the order of their first insertion
RECURSIVE table_keys(_)
table_keys(tool_list) ==
    IF tool_list = <<>> THEN <<>>
    ELSE LET front == table_keys(SubSeq(tool_list, 1, Len(tool_list) - 1))
             name == tool_list[Len(tool_list)].name
         IN  IF InList(name, front) THEN front ELSE Append(front, name)

-----------------------------------------------------------------------------
(* MCPServer (mcp_server/services.py) *)

MCPServerConfig(api_info) ==
    [base_url |-> Get(api_info, "base_url", <<>>),
     auth_type |-> Get(api_info, "auth_type", "none"),
     auth_config |-> Get(api_info, "auth_config", EmptyDict),
     name |-> Get(api_info, "name", "Generated API Tools"),
     client_key |-> None, entity_key |-> None, user_key |-> None]

\* RestApiTool.__init__ keeping the class default "http://localhost:9000" when
\* the configuration's base_url is empty
DynamicTool_default_base_url(tool_data, cfg) ==
    [api_base_url |-> IF cfg.base_url = <<>>
                      THEN HttpScheme \o <<"l","o","c","a","l","h","o","s","t",":","9","0","0","0">>
                      ELSE cfg.base_url,
     client_key |-> cfg.client_key,
     entity_key |-> cfg.entity_key,
     user_key |-> cfg.user_key,
     api_path |-> Get(tool_data, "path", <<>>),
     method |-> Get(tool_data, "method", GET),
     tool_description |-> Get(tool_data, "description", ""),
     tool_parameters |-> Get(tool_data, "parameters", EmptyDict)]

\* tool_class(config=self.config): RestApiTool.__init__, then DynamicTool.__init__
DynamicTool(tool_data, cfg) ==
    [api_base_url |-> cfg.base_url,
     client_key |-> cfg.client_key,
     entity_key |-> cfg.entity_key,
     user_key |-> cfg.user_key,
     api_path |-> Get(tool_data, "path", <<>>),
     method |-> Get(tool_data, "method", GET),
     tool_description |-> Get(tool_data, "description", ""),
     tool_parameters |-> Get(tool_data, "parameters", EmptyDict)]

\* table[key] = value
Put(table, key, value) ==
    [k \in DOMAIN table \cup {key} |-> IF k = key THEN value ELSE table[k]]

\* the loop of _generate_tools_from_yaml: a later tool of the same name replaces
\* the earlier one
RECURSIVE _generate_tools_from_yaml(_, _, _)
_generate_tools_from_yaml(table, tool_list, cfg) ==
    IF tool_list = <<>> THEN table
    ELSE _generate_tools_from_yaml(
             Put(table, Head(tool_list).name, DynamicTool(Head(tool_list), cfg)),
             Tail(tool_list), cfg)

\* DynamicTool.invoke with the identity keys of the call kept on the tool:
\* self.client_key = kwargs.get('client_key', self.client_key), and so on
services_invoke_keeping_keys(self, kwargs, backend) ==
    LET url == get_api_url(self, self.api_path)
        data == merge_arguments([client_key |-> self.client_key,
                                 entity_key |-> self.entity_key,
                                 user_key |-> self.user_key], kwargs, {"id"})
        res == http_request(url, backend)
        response == res_json(res.body)
    IN  [self |-> [self EXCEPT !.client_key = Get(kwargs, "client_key", @),
                               !.entity_key = Get(kwargs, "entity_key", @),
                               !.user_key = Get(kwargs, "user_key", @)],
         request |-> [method |-> Lower(self.method), url |-> url,
                      encoding |-> IF Upper(self.method) \in BodyMethods
                                   THEN "data" ELSE "params",
                      payload |-> data, reached |-> res.reached],
         outcome |-> IF res.raised THEN Raise(res.exc)
                     ELSE IF response.kind = "raise" THEN response
                     ELSE to_jsonrpc(response.value, res.body.content,
                                     Get(kwargs, "id", None))]

\* DynamicTool.invoke of MCPServer._create_dynamic_tool_class: the tool after the
\* call (invoke assigns to no attribute of self), the request made and the outcome
services_invoke(self, kwargs, backend) ==
    LET url == get_api_url(self, self.api_path)
        data == merge_arguments([client_key |-> self.client_key,
                                 entity_key |-> self.entity_key,
                                 user_key |-> self.user_key], kwargs, {"id"})
        res == http_request(url, backend)
        response == res_json(res.body)
    IN  [self |-> self,
         request |-> [method |-> Lower(self.method), url |-> url,
                      encoding |-> IF Upper(self.method) \in BodyMethods
                                   THEN "data" ELSE "params",
                      payload |-> data, reached |-> res.reached],
         outcome |-> IF res.raised THEN Raise(res.exc)
                     ELSE IF response.kind = "raise" THEN response
                     ELSE to_jsonrpc(response.value, res.body.content,
                                     Get(kwargs, "id", None))]

\* MCPServer.execute_tool: self.tools after the call, the request made and the
\* outcome
execute_tool(table, tool_name, parameters, backend) ==
    IF tool_name \notin DOMAIN table
    THEN [table |-> table, request |-> EmptyDict, outcome |-> Raise("ValueError")]
    ELSE LET result == services_invoke(table[tool_name], parameters, backend)
         IN  [table |-> Put(table, tool_name, result.self),
              request |-> result.request,
              outcome |-> IF result.outcome.kind = "return"
                          THEN result.outcome
                          ELSE Return(error_envelope("Tool execution failed: ",
                                                     result.outcome.exc, EmptyDict,
                                                     Get(parameters, "id", "-1")))]

\* MCPServer.get_available_tools
get_available_tools(table, names) ==
    [i \in 1..Len(names) |->
        [name |-> names[i],
         description |-> table[names[i]].tool_description,
         parameters |-> get_parameters(table[names[i]].tool_parameters),
         method |-> table[names[i]].method,
         path |-> table[names[i]].api_path]]

-----------------------------------------------------------------------------
(* MCPRestApiServer (mcp_server/mcp_server_stdio.py) *)

MCPConfig(api_info) ==
    [base_url |-> Get(api_info, "base_url", <<>>),
     auth_type |-> Get(api_info, "auth_type", "none"),
     auth_config |-> Get(api_info, "auth_config", EmptyDict),
     name |-> Get(api_info, "name", "Generated API Tools"),
     client_key |-> None, entity_key |-> None, user_key |-> None]

\* the loop of _create_tool_instances
RECURSIVE _create_tool_instances(_, _, _)
_create_tool_instances(table, tool_list, cfg) ==
    IF tool_list = <<>> THEN table
    ELSE _create_tool_instances(
             Put(table, Head(tool_list).name,
                 [instance |-> DynamicTool(Head(tool_list), cfg),
                  metadata |-> Head(tool_list)]),
             Tail(tool_list), cfg)

\* DynamicTool.invoke of MCPRestApiServer._create_dynamic_tool_instance
stdio_invoke(self, kwargs, backend) ==
    LET url == get_api_url(self, self.api_path)
        data == merge_arguments([client_key |-> self.client_key,
                                 entity_key |-> self.entity_key,
                                 user_key |-> self.user_key], kwargs, {"id"})
        res == http_request(url, backend)
        content == IF res.body.content = "empty" THEN "object" ELSE res.body.content
        response == IF res.body.content = "empty" THEN Return(EmptyDict)
                    ELSE res_json(res.body)
        framed == to_jsonrpc(response.value, content, Get(kwargs, "id", None))
        failed(exc) == Return(error_envelope("Request failed: ", exc, EmptyDict,
                                             Get(kwargs, "id", "-1")))
    IN  [self |-> self,
         request |-> [method |-> Lower(self.method), url |-> url,
                      encoding |-> IF Upper(self.method) \in BodyMethods
                                   THEN "json" ELSE "params",
                      payload |-> data, reached |-> res.reached],
         outcome |-> IF res.raised THEN failed(res.exc)
                     ELSE IF response.kind = "raise" THEN failed(response.exc)
                     ELSE IF framed.kind = "raise" THEN failed(framed.exc)
                     ELSE framed]

\* handle_call_tool
handle_call_tool(table, name, arguments, backend) ==
    IF name \notin DOMAIN table
    THEN [table |-> table, request |-> EmptyDict, outcome |-> Raise("ValueError")]
    ELSE LET result == stdio_invoke(table[name].instance, arguments, backend)
             text_content(envelope) == <<[type |-> "text", text |-> json_dumps(envelope)]>>
         IN  [table |-> Put(table, name, [table[name] EXCEPT !.instance = result.self]),
              request |-> result.request,
              outcome |-> IF result.outcome.kind = "return"
                          THEN Return(text_content(result.outcome.value))
                          ELSE Return(text_content(
                                   error_envelope("Tool execution failed: ",
                                                  result.outcome.exc, EmptyDict, "-1")))]

\* handle_list_tools
handle_list_tools(table, names) ==
    [i \in 1..Len(names) |->
        LET params == get_parameters(table[names[i]].instance.tool_parameters)
        IN  [name |-> names[i],
             description |-> Get(table[names[i]].metadata, "description", ""),
             inputSchema |-> [type |-> "object",
                              properties |-> params.properties,
                              required |-> params.required]]]

-----------------------------------------------------------------------------
(* FastMCPRestApiServer (mcp_server/mcp_server_fastmcp.py) *)

FastMCPConfig(api_info) ==
    [base_url |-> Get(api_info, "base_url", <<>>),
     auth_type |-> Get(api_info, "auth_type", "none"),
     auth_config |-> Get(api_info, "auth_config", EmptyDict),
     name |-> Get(api_info, "name", "Generated API Tools")]

\* FastMCPRestApiServer._execute_tool
_execute_tool(cfg, tool_data, arguments, backend) ==
    LET method == Get(tool_data, "method", GET)
        path == Get(tool_data, "path", <<>>)
        base_url == RStrip(cfg.base_url, "/")
        url == base_url \o path
        merged == merge_arguments([k \in IdentityKeys |-> Get(arguments, k, None)],
                                  arguments, IdentityKeys)
        request_data == [k \in {k \in DOMAIN merged : merged[k] # None} |-> merged[k]]
        res == http_request(url, backend)
        parsed == res_json(res.body)
        failed(exc) ==
            Return(json_dumps(error_envelope("Request failed: ", exc,
                                             [url |-> url, method |-> method,
                                              parameters |-> request_data], "1")))
    IN  [config |-> cfg,
         request |-> [method |-> Upper(method), url |-> url,
                      encoding |-> IF Upper(method) \in BodyMethods
                                   THEN "json" ELSE "params",
                      payload |-> request_data, reached |-> res.reached],
         outcome |-> IF res.raised THEN failed(res.exc)
                     ELSE IF res.status_code >= 400 THEN failed("HTTPStatusError")
                     ELSE Return(json_dumps(
                              [jsonrpc |-> "2.0",
                               result |-> [status |-> res.status_code,
                                           data |-> IF parsed.kind = "return"
                                                    THEN parsed.value ELSE res.body.text,
                                           message |-> "Request successful"],
                               id |-> "1"]))]

-----------------------------------------------------------------------------
(* The dispatchers' specification: a process constructs one dispatcher, loads *)
(* a manifest file, and then serves calls one after another                   *)

\* the operations the manifest files on disk were generated from
ManifestOperations == {GetPetById, PostPet, GetPet, GetPetSlash, PutPet}

\* the manifest files a dispatcher may be started on: the generator's output
\* for up to MaxTools different operations
ManifestFiles ==
    {yaml_dump(generate_yaml_structure(api_config, eps)) :
        api_config \in ApiConfigs,
        eps \in {ops \in ListsUpTo(ManifestOperations, MaxTools) :
                    \A i, j \in 1..Len(ops) : ops[i] = ops[j] => i = j}}

\* a tool name no manifest holds
UnknownTool == <<"N","o","p","e">>

Absent == "Absent"

\* the argument map of a call: the keys given a value other than Absent
Arguments(client_key, entity_key, user_key, petId, id) ==
    LET all == [client_key |-> client_key, entity_key |-> entity_key,
                user_key |-> user_key, petId |-> petId, id |-> id]
    IN  [k \in {k \in DOMAIN all : all[k] # Absent} |-> all[k]]

ArgumentMaps ==
    {Arguments(ck, rest[1], rest[2], pid, id) :
        ck \in {Absent, None, "c"}, rest \in {<<Absent, Absent>>, <<"e", "u">>},
        pid \in {Absent, "42"}, id \in {Absent, "7"}}

\* the JSON objects a backend answers with
JsonObjects ==
    {EmptyDict,
     [data |-> JsonList(<<"pets">>)],
     [error |-> TRUE, status |-> 404, msg |-> "not found"],
     [error |-> FALSE, data |-> JsonList(<<"pets">>), request_id |-> "9"]}

Bodies ==
    {[content |-> "empty", text |-> ""], [content |-> "text", text |-> "pong"],
     [content |-> "array", value |-> JsonList(<<>>)]}
    \cup {[content |-> "object", value |-> obj] : obj \in JsonObjects}

\* what the backend does with a request: it cannot be reached, or it answers
Backends ==
    {[kind |-> "unreachable"]}
    \cup {[kind |-> "response", status |-> status, body |-> body] :
             status \in {200, 404}, body \in Bodies}
    \cup {[kind |-> "response", status |-> 500, body |-> [content |-> "empty", text |-> ""]]}

Init ==
    /\ db = EmptyDatabase
    /\ mcp_registry = EmptyDict
    /\ parser = NewParser
    /\ yaml_file = NoFile
    /\ self_api_config = EmptyDict
    /\ endpoints = <<>>
    /\ yaml_structure = NotGenerated
    /\ server = "none"
    /\ yaml_data = NotLoaded
    /\ config = EmptyDict
    /\ tools = EmptyDict
    /\ pc = "new"
    /\ call = EmptyDict
    /\ request = EmptyDict
    /\ reply = EmptyDict

\* MCPToolRegistry.register_server: MCPServer(), load_yaml_configuration,
\* load_dynamic_tools (no tools file: _generate_tools_from_yaml)
RegisterServer ==
    /\ pc = "new"
    /\ \E file \in ManifestFiles :
          LET data == yaml_safe_load(file)
              api_info == Get(data, "api_info", EmptyDict)
          IN  /\ yaml_data' = data
              /\ config' = MCPServerConfig(api_info)
              /\ tools' = _generate_tools_from_yaml(EmptyDict, Get(data, "tools", <<>>),
                                                  MCPServerConfig(api_info))
    /\ server' = "MCPServer"
    /\ pc' = "idle"
    /\ UNCHANGED <<parser, yaml_file, self_api_config, endpoints, yaml_structure, call,
                   request, reply, db, mcp_registry>>

\* MCPRestApiServer.load_configuration
StdioLoadConfiguration ==
    /\ pc = "new"
    /\ \E file \in ManifestFiles :
          LET data == yaml_safe_load(file)
              api_info == Get(data, "api_info", EmptyDict)
          IN  /\ yaml_data' = data
              /\ config' = MCPConfig(api_info)
              /\ tools' = _create_tool_instances(EmptyDict, Get(data, "tools", <<>>),
                                               MCPConfig(api_info))
    /\ server' = "MCPRestApiServer"
    /\ pc' = "idle"
    /\ UNCHANGED <<parser, yaml_file, self_api_config, endpoints, yaml_structure, call,
                   request, reply, db, mcp_registry>>

\* FastMCPRestApiServer.load_configuration; register_tools keeps the tools in
\* the FastMCP library, one function per entry of yaml_data['tools']
FastMCPLoadConfiguration ==
    /\ pc = "new"
    /\ \E file \in ManifestFiles :
          /\ yaml_data' = yaml_safe_load(file)
          /\ config' = FastMCPConfig(Get(yaml_safe_load(file), "api_info", EmptyDict))
    /\ server' = "FastMCPRestApiServer"
    /\ pc' = "idle"
    /\ UNCHANGED <<parser, yaml_file, self_api_config, endpoints, yaml_structure, tools,
                   call, request, reply, db, mcp_registry>>

\* the names a caller may ask for: those of the manifest and one it does not hold
CallableNames == {yaml_data.tools[i].name : i \in 1..Len(yaml_data.tools)} \cup {UnknownTool}

\* await MCPServer.execute_tool(tool_name, parameters)
ExecuteTool ==
    /\ pc = "idle"
    /\ server = "MCPServer"
    /\ \E tool_name \in CallableNames, parameters \in ArgumentMaps, backend \in Backends :
          LET done == execute_tool(tools, tool_name, parameters, backend)
          IN  /\ call' = [tool_name |-> tool_name, arguments |-> parameters,
                          backend |-> backend]
              /\ request' = done.request
              /\ reply' = done.outcome
              /\ tools' = done.table
    /\ pc' = "returned"
    /\ UNCHANGED <<parser, yaml_file, self_api_config, endpoints, yaml_structure, server,
                   yaml_data, config, db, mcp_registry>>

\* the stdio server's call_tool handler
HandleCallTool ==
    /\ pc = "idle"
    /\ server = "MCPRestApiServer"
    /\ \E name \in CallableNames, arguments \in ArgumentMaps, backend \in Backends :
          LET done == handle_call_tool(tools, name, arguments, backend)
          IN  /\ call' = [tool_name |-> name, arguments |-> arguments,
                          backend |-> backend]
              /\ request' = done.request
              /\ reply' = done.outcome
              /\ tools' = done.table
    /\ pc' = "returned"
    /\ UNCHANGED <<parser, yaml_file, self_api_config, endpoints, yaml_structure, server,
                   yaml_data, config, db, mcp_registry>>

\* a tool function FastMCP registered: self._execute_tool(tool_data, kwargs)
ToolFunction ==
    /\ pc = "idle"
    /\ server = "FastMCPRestApiServer"
    /\ \E i \in 1..Len(yaml_data.tools), kwargs \in ArgumentMaps, backend \in Backends :
          LET done == _execute_tool(config, yaml_data.tools[i], kwargs, backend)
          IN  /\ call' = [tool_name |-> yaml_data.tools[i].name, arguments |-> kwargs,
                          backend |-> backend, tool_data |-> yaml_data.tools[i]]
              /\ request' = done.request
              /\ reply' = done.outcome
              /\ config' = done.config
    /\ pc' = "returned"
    /\ UNCHANGED <<parser, yaml_file, self_api_config, endpoints, yaml_structure, server,
                   yaml_data, tools, db, mcp_registry>>

\* MCPServer.get_available_tools()
GetAvailableTools ==
    /\ pc = "idle"
    /\ server = "MCPServer"
    /\ call' = [operation |-> "get_available_tools"]
    /\ reply' = Return(get_available_tools(tools, table_keys(Get(yaml_data, "tools", <<>>))))
    /\ pc' = "listed"
    /\ UNCHANGED <<parser, yaml_file, self_api_config, endpoints, yaml_structure, server,
                   yaml_data, config, tools, request, db, mcp_registry>>

\* the stdio server's list_tools handler
HandleListTools ==
    /\ pc = "idle"
    /\ server = "MCPRestApiServer"
    /\ call' = [operation |-> "list_tools"]
    /\ reply' = Return(handle_list_tools(tools, table_keys(Get(yaml_data, "tools", <<>>))))
    /\ pc' = "listed"
    /\ UNCHANGED <<parser, yaml_file, self_api_config, endpoints, yaml_structure, server,
                   yaml_data, config, tools, request, db, mcp_registry>>

\* the caller has the reply; the dispatcher waits for the next call
NextCall ==
    /\ pc \in {"returned", "listed"}
    /\ pc' = "idle"
    /\ call' = EmptyDict
    /\ request' = EmptyDict
    /\ reply' = EmptyDict
    /\ UNCHANGED <<parser, yaml_file, self_api_config, endpoints, yaml_structure, server,
                   yaml_data, config, tools, db, mcp_registry>>

Next ==
    \/ RegisterServer
    \/ StdioLoadConfiguration
    \/ FastMCPLoadConfiguration
    \/ ExecuteTool
    \/ HandleCallTool
    \/ ToolFunction
    \/ GetAvailableTools
    \/ HandleListTools
    \/ NextCall

Spec == Init /\ [][Next]_vars

-----------------------------------------------------------------------------
(* Overlapping calls: the dispatch methods are coroutines, and a call that   *)
(* waits for its backend leaves the dispatcher to the other callers. Under   *)
(* this specification pc, call, request and reply hold one value per caller, *)
(* and yaml_file is the manifest file the dispatcher was started on          *)

MaxCallers == 2
Callers == 1..MaxCallers

\* the manifest files, argument maps and backends of the overlapping calls
OverlapFiles == {yaml_dump(generate_yaml_structure(ApiConfig(BaseUrl), <<GetPetById, PostPet>>))}
OverlapArguments ==
    {Arguments("c", "e", "u", "42", "7"), Arguments(Absent, Absent, Absent, "42", Absent)}
OverlapBackends ==
    {[kind |-> "unreachable"],
     [kind |-> "response", status |-> 200,
      body |-> [content |-> "object", value |-> [data |-> JsonList(<<"pets">>)]]]}

OverlapInit ==
    /\ db = EmptyDatabase
    /\ mcp_registry = EmptyDict
    /\ parser = NewParser
    /\ yaml_file = NoFile
    /\ self_api_config = EmptyDict
    /\ endpoints = <<>>
    /\ yaml_structure = NotGenerated
    /\ server = "none"
    /\ yaml_data = NotLoaded
    /\ config = EmptyDict
    /\ tools = EmptyDict
    /\ pc = [c \in Callers |-> "new"]
    /\ call = [c \in Callers |-> EmptyDict]
    /\ request = [c \in Callers |-> EmptyDict]
    /\ reply = [c \in Callers |-> EmptyDict]

\* the dispatcher is constructed and loaded before any caller is served
Serving ==
    /\ pc' = [c \in Callers |-> "idle"]
    /\ UNCHANGED <<parser, self_api_config, endpoints, yaml_structure, call, request,
                   reply, db, mcp_registry>>

\* MCPToolRegistry.register_server
OverlapRegisterServer ==
    /\ \A c \in Callers : pc[c] = "new"
    /\ \E file \in OverlapFiles :
          LET data == yaml_safe_load(file)
              api_info == Get(data, "api_info", EmptyDict)
          IN  /\ yaml_file' = file
              /\ yaml_data' = data
              /\ config' = MCPServerConfig(api_info)
              /\ tools' = _generate_tools_from_yaml(EmptyDict, Get(data, "tools", <<>>),
                                                  MCPServerConfig(api_info))
    /\ server' = "MCPServer"
    /\ Serving

\* MCPRestApiServer.load_configuration
OverlapStdioLoadConfiguration ==
    /\ \A c \in Callers : pc[c] = "new"
    /\ \E file \in OverlapFiles :
          LET data == yaml_safe_load(file)
              api_info == Get(data, "api_info", EmptyDict)
          IN  /\ yaml_file' = file
              /\ yaml_data' = data
              /\ config' = MCPConfig(api_info)
              /\ tools' = _create_tool_instances(EmptyDict, Get(data, "tools", <<>>),
                                               MCPConfig(api_info))
    /\ server' = "MCPRestApiServer"
    /\ Serving

\* FastMCPRestApiServer.load_configuration and register_tools
OverlapFastMCPLoadConfiguration ==
    /\ \A c \in Callers : pc[c] = "new"
    /\ \E file \in OverlapFiles :
          /\ yaml_file' = file
          /\ yaml_data' = yaml_safe_load(file)
          /\ config' = FastMCPConfig(Get(yaml_safe_load(file), "api_info", EmptyDict))
    /\ tools' = tools
    /\ server' = "FastMCPRestApiServer"
    /\ Serving

\* another caller's call waits for its backend
InFlight(c) == \E d \in Callers \ {c} : pc[d] = "awaiting"

\* a dispatch method runs up to its HTTP request: it has looked up the tool and
\* read the tool's url, method and bound keys; overlapped tells that the call
\* began while another one was waiting
Begin(c, tool_name, arguments, read) ==
    /\ pc[c] = "idle"
    /\ call' = [call EXCEPT ![c] = [tool_name |-> tool_name, arguments |-> arguments,
                                    read |-> read, overlapped |-> InFlight(c)]]
    /\ pc' = [pc EXCEPT ![c] = "awaiting"]
    /\ UNCHANGED <<parser, yaml_file, self_api_config, endpoints, yaml_structure, server,
                   yaml_data, config, tools, request, reply, db, mcp_registry>>

\* the backend has answered or failed: the method runs to its return
Complete(c, backend, done) ==
    /\ call' = [call EXCEPT ![c] = @ @@ [backend |-> backend]]
    /\ request' = [request EXCEPT ![c] = done.request]
    /\ reply' = [reply EXCEPT ![c] = done.outcome]
    /\ pc' = [pc EXCEPT ![c] = "returned"]
    /\ UNCHANGED <<parser, yaml_file, self_api_config, endpoints, yaml_structure, server,
                   yaml_data, db, mcp_registry>>

\* await MCPServer.execute_tool(tool_name, parameters), up to requests.request
BeginExecuteTool(c) ==
    /\ server = "MCPServer"
    /\ \E tool_name \in CallableNames, parameters \in OverlapArguments :
          Begin(c, tool_name, parameters, tools)

\* MCPServer.execute_tool from the answer of requests.request on
CompleteExecuteTool(c) ==
    /\ server = "MCPServer"
    /\ pc[c] = "awaiting"
    /\ \E backend \in OverlapBackends :
          LET done == execute_tool(call[c].read, call[c].tool_name, call[c].arguments,
                                   backend)
          IN  /\ Complete(c, backend, done)
              /\ tools' = IF done.table = call[c].read THEN tools ELSE done.table
    /\ config' = config

\* the stdio server's call_tool handler, up to requests.request
BeginHandleCallTool(c) ==
    /\ server = "MCPRestApiServer"
    /\ \E name \in CallableNames, arguments \in OverlapArguments :
          Begin(c, name, arguments, tools)

\* the stdio server's call_tool handler from the answer of requests.request on
CompleteHandleCallTool(c) ==
    /\ server = "MCPRestApiServer"
    /\ pc[c] = "awaiting"
    /\ \E backend \in OverlapBackends :
          LET done == handle_call_tool(call[c].read, call[c].tool_name,
                                       call[c].arguments, backend)
          IN  /\ Complete(c, backend, done)
              /\ tools' = IF done.table = call[c].read THEN tools ELSE done.table
    /\ config' = config

\* a tool function FastMCP registered, up to await client.request
BeginToolFunction(c) ==
    /\ server = "FastMCPRestApiServer"
    /\ \E i \in 1..Len(yaml_data.tools), kwargs \in OverlapArguments :
          Begin(c, yaml_data.tools[i].name, kwargs,
                [config |-> config, tool_data |-> yaml_data.tools[i], index |-> i])

\* the tool function from the answer of await client.request on
CompleteToolFunction(c) ==
    /\ server = "FastMCPRestApiServer"
    /\ pc[c] = "awaiting"
    /\ \E backend \in OverlapBackends :
          LET done == _execute_tool(call[c].read.config, call[c].read.tool_data,
                                    call[c].arguments, backend)
          IN  /\ Complete(c, backend, done)
              /\ config' = IF done.config = call[c].read.config THEN config
                            ELSE done.config
    /\ tools' = tools

\* the caller has the reply and may call again
TakeReply(c) ==
    /\ pc[c] = "returned"
    /\ pc' = [pc EXCEPT ![c] = "idle"]
    /\ call' = [call EXCEPT ![c] = EmptyDict]
    /\ request' = [request EXCEPT ![c] = EmptyDict]
    /\ reply' = [reply EXCEPT ![c] = EmptyDict]
    /\ UNCHANGED <<parser, yaml_file, self_api_config, endpoints, yaml_structure, server,
                   yaml_data, config, tools, db, mcp_registry>>

OverlapNext ==
    \/ OverlapRegisterServer
    \/ OverlapStdioLoadConfiguration
    \/ OverlapFastMCPLoadConfiguration
    \/ \E c \in Callers : BeginExecuteTool(c)
    \/ \E c \in Callers : CompleteExecuteTool(c)
    \/ \E c \in Callers : BeginHandleCallTool(c)
    \/ \E c \in Callers : CompleteHandleCallTool(c)
    \/ \E c \in Callers : BeginToolFunction(c)
    \/ \E c \in Callers : CompleteToolFunction(c)
    \/ \E c \in Callers : TakeReply(c)

SpecOverlap == OverlapInit /\ [][OverlapNext]_vars

-----------------------------------------------------------------------------
(* The server registry (mcp_server/views.py): the requests start_server,      *)
(* stop_server and create_server_from_yaml on the MCPServerInstance rows and  *)
(* on the process-wide mcp_registry. Under this specification call is the     *)
(* request served last and reply its response                                 *)

MaxFiles == 2

\* the ids of the GeneratedYAMLFile rows; a OneToOneField ties an
\* MCPServerInstance row to its yaml_file, so a row is known by that id
YamlFileIds == 1..MaxFiles

\* an id no GeneratedYAMLFile row has
UnknownId == MaxFiles + 1

\* the server names requests may carry; server_name is not unique
ServerNames == {"alpha", "beta"}

\* del table[key]
Remove(table, key) == [k \in DOMAIN table \ {key} |-> table[k]]

\* Response({...}, status=...)
Response(status, code) == [status |-> status, code |-> code]

\* MCPToolRegistry.register_server: MCPServer(yaml_file_path), its loading, which
\* raises on a file that is missing or does not load, then self.servers[name]
register_server(servers, server_name, yaml_file_path, disk) ==
    IF disk.exists /\ disk.loads
    THEN [servers |-> Put(servers, server_name, [yaml_file_path |-> yaml_file_path]),
          outcome |-> Return([yaml_file_path |-> yaml_file_path])]
    ELSE [servers |-> servers, outcome |-> Raise("FileNotFoundError")]

\* MCPServerInstanceViewSet.start_server
start_server(instances, servers, pk, disk) ==
    IF pk \notin DOMAIN instances
    THEN [instances |-> instances, servers |-> servers, response |-> Response("error", 404)]
    ELSE LET server_instance == instances[pk]
             registered == register_server(servers, server_instance.server_name,
                                           server_instance.yaml_file, disk)
         IN  IF ~disk.exists
             THEN [instances |-> instances, servers |-> servers,
                   response |-> Response("error", 404)]
             ELSE IF registered.outcome.kind = "raise"
             THEN [instances |-> instances, servers |-> registered.servers,
                   response |-> Response("error", 500)]
             ELSE [instances |-> Put(instances, pk,
                                     [server_instance EXCEPT !.is_running = TRUE]),
                   servers |-> registered.servers,
                   response |-> Response("success", 200)]

\* MCPServerInstanceViewSet.stop_server
stop_server(instances, servers, pk) ==
    IF pk \notin DOMAIN instances
    THEN [instances |-> instances, servers |-> servers, response |-> Response("error", 404)]
    ELSE LET server_instance == instances[pk]
         IN  [instances |-> Put(instances, pk,
                                [server_instance EXCEPT !.is_running = FALSE]),
              servers |-> IF server_instance.server_name \in DOMAIN servers
                          THEN Remove(servers, server_instance.server_name)
                          ELSE servers,
              response |-> Response("success", 200)]

\* MCPRegistryViewSet.create_server_from_yaml
create_server_from_yaml(instances, servers, yaml_file_id, server_name, disk) ==
    IF yaml_file_id = UnknownId \/ server_name = ""
    THEN [instances |-> instances, servers |-> servers,
          response |-> Response("error", IF server_name = "" THEN 400 ELSE 404)]
    ELSE LET created == yaml_file_id \notin DOMAIN instances
             server_instance ==
                 IF created
                 THEN [yaml_file |-> yaml_file_id, server_name |-> server_name,
                       is_running |-> FALSE, server_config |-> EmptyDict]
                 ELSE [instances[yaml_file_id] EXCEPT !.server_name = server_name]
             saved == Put(instances, yaml_file_id, server_instance)
             registered == register_server(servers, server_name, yaml_file_id, disk)
         IN  IF registered.outcome.kind = "raise"
             THEN [instances |-> saved, servers |-> registered.servers,
                   response |-> Response("error", 500)]
             ELSE [instances |-> Put(saved, yaml_file_id,
                                     [server_instance EXCEPT !.is_running = TRUE]),
                   servers |-> registered.servers,
                   response |-> Response("success", 200)]

\* the manifest file of a row, as the request finds it on disk
Disks == {[exists |-> TRUE, loads |-> TRUE], [exists |-> TRUE, loads |-> FALSE],
          [exists |-> FALSE, loads |-> FALSE]}

\* the GeneratedYAMLFile rows are there, no server was ever created or started
RegistryInit ==
    /\ db = [EmptyDatabase EXCEPT
                !.GeneratedYAMLFile = [id \in YamlFileIds |->
                                          [file_path |-> id,
                                           generation_status |-> "completed"]]]
    /\ mcp_registry = EmptyDict
    /\ parser = NewParser
    /\ yaml_file = NoFile
    /\ self_api_config = EmptyDict
    /\ endpoints = <<>>
    /\ yaml_structure = NotGenerated
    /\ server = "none"
    /\ yaml_data = NotLoaded
    /\ config = EmptyDict
    /\ tools = EmptyDict
    /\ pc = "serving"
    /\ call = [operation |-> "none"]
    /\ request = EmptyDict
    /\ reply = EmptyDict

\* a request was served: the rows, the registry and the response it left
Served(operation, pk, done) ==
    /\ db' = [db EXCEPT !.MCPServerInstance = done.instances]
    /\ mcp_registry' = done.servers
    /\ call' = [operation |-> operation, pk |-> pk]
    /\ reply' = done.response
    /\ UNCHANGED <<parser, yaml_file, self_api_config, endpoints, yaml_structure, server,
                   yaml_data, config, tools, pc, request>>

\* POST .../{pk}/start_server/
StartServer ==
    /\ pc = "serving"
    /\ \E pk \in YamlFileIds, disk \in Disks :
          Served("start_server", pk,
                 start_server(db.MCPServerInstance, mcp_registry, pk, disk))

\* POST .../{pk}/stop_server/
StopServer ==
    /\ pc = "serving"
    /\ \E pk \in YamlFileIds :
          Served("stop_server", pk, stop_server(db.MCPServerInstance, mcp_registry, pk))

\* POST .../create_server_from_yaml/
CreateServerFromYaml ==
    /\ pc = "serving"
    /\ \E yaml_file_id \in YamlFileIds \cup {UnknownId},
          server_name \in ServerNames \cup {""}, disk \in Disks :
          Served("create_server_from_yaml", yaml_file_id,
                 create_server_from_yaml(db.MCPServerInstance, mcp_registry, yaml_file_id,
                                         server_name, disk))

RegistryNext ==
    \/ StartServer
    \/ StopServer
    \/ CreateServerFromYaml

SpecRegistry == RegistryInit /\ [][RegistryNext]_vars

-----------------------------------------------------------------------------
(* The generation task (tools_generator/tasks.py): generate_yaml_from_swagger *)
(* on the rows of GeneratedYAMLFile and APIEndpoint. Under this specification  *)
(* call is the run of the task that ended last and reply what it returned      *)

\* f"{api_config.name.lower().replace(' ', '_')}_tools.yaml"
file_name_of(api_config) == "petstore_tools.yaml"

\* str(settings.YAML_FILES_DIR / yaml_file.file_name)
file_path_of(file_name) == "yaml_files/petstore_tools.yaml"

\* the GeneratedYAMLFile rows of an API configuration
yaml_files_of(rows, api_config_id) ==
    {id \in DOMAIN rows : rows[id].api_configuration = api_config_id}

\* the row get_or_create makes from its defaults and the model's
new_yaml_file(api_config_id, api_config) ==
    [api_configuration |-> api_config_id, file_name |-> file_name_of(api_config),
     file_path |-> "", tools_count |-> 0, generation_status |-> "processing",
     error_message |-> ""]

\* the start of a run with error_message left as the row had it
mark_processing_keeping_message(row, api_config) ==
    [row EXCEPT !.file_name = IF @ = "" THEN file_name_of(api_config) ELSE @,
                !.generation_status = "processing"]

\* the start of a run: file_name is set where it was empty, generation_status is
\* 'processing', error_message is ''
mark_processing(row, api_config) ==
    [row EXCEPT !.file_name = IF @ = "" THEN file_name_of(api_config) ELSE @,
                !.generation_status = "processing",
                !.error_message = ""]

\* the loop of APIEndpoint.objects.update_or_create over the endpoints
RECURSIVE update_or_create_endpoints(_, _, _)
update_or_create_endpoints(rows, yaml_file_id, eps) ==
    IF eps = <<>> THEN rows
    ELSE LET endpoint_data == Head(eps)
             defaults == [operation_id |-> Get(endpoint_data, "operation_id", <<>>),
                          summary |-> Get(endpoint_data, "summary", ""),
                          description |-> Get(endpoint_data, "description", ""),
                          parameters |-> Get(endpoint_data, "parameters", <<>>),
                          responses |-> Get(endpoint_data, "responses", EmptyDict),
                          tool_name |-> _generate_tool_name(endpoint_data)]
         IN  update_or_create_endpoints(
                 Put(rows, <<yaml_file_id, endpoint_data.path, endpoint_data.method>>,
                     defaults),
                 yaml_file_id, Tail(eps))

\* generate_yaml_from_swagger(api_config_id) on the database, with what the
\* swagger_url serves, what the strict validator says, and whether the manifest
\* file and the endpoint rows can be written
generate_yaml_from_swagger(database, api_config_id, fetched, validator, writable) ==
    IF api_config_id \notin DOMAIN database.APIConfiguration
    THEN [db |-> database, parser |-> NewParser, endpoints |-> <<>>, file |-> NoFile,
          created |-> FALSE, found |-> EmptyDict,
          result |-> [status |-> "error", message |-> "API Configuration not found"]]
    ELSE
    LET api_config == database.APIConfiguration[api_config_id]
        existing == yaml_files_of(database.GeneratedYAMLFile, api_config_id)
        created == existing = {}
        yaml_file_id == IF created THEN Cardinality(DOMAIN database.GeneratedYAMLFile) + 1
                        ELSE CHOOSE id \in existing : TRUE
        found == IF created THEN new_yaml_file(api_config_id, api_config)
                 ELSE database.GeneratedYAMLFile[yaml_file_id]
        processing == mark_processing(found, api_config)
        started == [database EXCEPT
                      !.GeneratedYAMLFile = Put(@, yaml_file_id, processing)]
        fetch == fetch_swagger_spec(NewParser, fetched, validator)
        extracted == extract_endpoints(fetch.parser)
        eps == IF fetch.outcome.kind = "return" /\ extracted.kind = "return"
               THEN extracted.value ELSE <<>>
        file == yaml_dump(generate_yaml_structure(api_config, eps))
        completed == [processing EXCEPT !.file_path = file_path_of(processing.file_name),
                                        !.tools_count = Len(eps),
                                        !.generation_status = "completed"]
        saved == [started EXCEPT !.GeneratedYAMLFile = Put(@, yaml_file_id, completed)]
        recorded == [saved EXCEPT
                       !.APIEndpoint = update_or_create_endpoints(@, yaml_file_id, eps)]
        failed(at, row, message, parsed, written) ==
            [db |-> [at EXCEPT
                       !.GeneratedYAMLFile =
                           Put(@, yaml_file_id,
                               [row EXCEPT !.generation_status = "failed",
                                           !.error_message = message])],
             parser |-> fetch.parser, endpoints |-> parsed, file |-> written,
             created |-> created, found |-> found,
             result |-> [status |-> "error", message |-> message]]
    IN  IF fetch.outcome.kind = "raise"
        THEN failed(started, processing, fetch.outcome.exc, <<>>, NoFile)
        ELSE IF extracted.kind = "raise"
        THEN failed(started, processing, extracted.exc, <<>>, NoFile)
        ELSE IF ~writable.file
        THEN failed(started, processing, "OSError", eps, NoFile)
        ELSE IF ~writable.rows /\ eps # <<>>
        THEN failed(saved, completed, "DataError", eps, file)
        ELSE [db |-> recorded, parser |-> fetch.parser, endpoints |-> eps, file |-> file,
              created |-> created, found |-> found,
              result |-> [status |-> "success", yaml_file_id |-> yaml_file_id,
                          tools_count |-> Len(eps)]]

\* the paths objects the swagger_url of the configuration serves over time: all
\* operations, the same without some of them, and one operation given twice
TaskPaths ==
    {<<[key |-> PetPath, value |-> <<[key |-> Lower(GET), value |-> RawListPets],
                                      [key |-> Lower(POST), value |-> RawAddPet]>>],
       [key |-> PetIdPath, value |-> <<[key |-> Lower(GET), value |-> RawFindPet]>>]>>,
     <<[key |-> PetPath, value |-> <<[key |-> Lower(GET), value |-> RawListPets]>>]>>,
     <<[key |-> PetPath, value |-> <<[key |-> Lower(GET), value |-> RawFindPet],
                                      [key |-> GET, value |-> RawListPets]>>]>>}

TaskDocuments ==
    {[swagger |-> Str(<<"2",".","0">>), info |-> [title |-> "Petstore", version |-> "1.0"]]
         @@ paths : paths \in {EmptyDict} \cup {[paths |-> p] : p \in TaskPaths}}
    \cup {[swagger |-> Str(<<"2",".","0">>)]}

TaskResponses ==
    {[kind |-> "unreachable"]}
    \cup {[kind |-> "response", status |-> 200,
           body |-> [content |-> "object", value |-> document]] :
             document \in TaskDocuments}

\* whether the manifest file and the APIEndpoint rows can be written
Writables == {[file |-> TRUE, rows |-> TRUE], [file |-> FALSE, rows |-> TRUE],
              [file |-> TRUE, rows |-> FALSE]}

\* the API configuration is stored; it has no GeneratedYAMLFile row yet, or one
\* that was created with the model's defaults
TaskInit ==
    /\ db \in {[EmptyDatabase EXCEPT !.APIConfiguration = <<ApiConfig(BaseUrl)>>,
                                      !.GeneratedYAMLFile = rows] :
                  rows \in {EmptyDict,
                            <<[api_configuration |-> 1, file_name |-> "", file_path |-> "",
                               tools_count |-> 0, generation_status |-> "pending",
                               error_message |-> ""]>>}}
    /\ mcp_registry = EmptyDict
    /\ parser = NewParser
    /\ yaml_file = NoFile
    /\ self_api_config = EmptyDict
    /\ endpoints = <<>>
    /\ yaml_structure = NotGenerated
    /\ server = "none"
    /\ yaml_data = NotLoaded
    /\ config = EmptyDict
    /\ tools = EmptyDict
    /\ pc = "new"
    /\ call = EmptyDict
    /\ request = EmptyDict
    /\ reply = EmptyDict

\* a worker runs generate_yaml_from_swagger(api_config_id) to its return
GenerateYamlFromSwagger ==
    /\ pc \in {"new", "returned"}
    /\ \E api_config_id \in 1..(Len(db.APIConfiguration) + 1), fetched \in TaskResponses,
          validator \in Validators, writable \in Writables :
          LET done == generate_yaml_from_swagger(db, api_config_id, fetched, validator,
                                                 writable)
          IN  /\ db' = done.db
              /\ parser' = done.parser
              /\ endpoints' = done.endpoints
              /\ yaml_file' = IF done.file.written THEN done.file ELSE yaml_file
              /\ call' = [api_config_id |-> api_config_id, fetched |-> fetched,
                          created |-> done.created, found |-> done.found]
              /\ reply' = done.result
    /\ pc' = "returned"
    /\ UNCHANGED <<self_api_config, yaml_structure, server, yaml_data, config, tools,
                   request, mcp_registry>>

TaskNext == GenerateYamlFromSwagger

SpecTask == TaskInit /\ [][TaskNext]_vars

-----------------------------------------------------------------------------
(* What the claims speak of *)

\* a call has ended by returning a value
Returned == pc = "returned" /\ reply.kind = "return"

\* the envelope a returned value carries: MCPServer returns the dict, the stdio
\* handler a list of one text content, FastMCP the JSON text
Envelope ==
    IF server = "MCPServer" THEN reply.value
    ELSE IF server = "MCPRestApiServer" THEN reply.value[1].text.json_text_of
    ELSE reply.value.json_text_of

IsFailure(envelope) == "error" \in DOMAIN envelope /\ "result" \notin DOMAIN envelope
IsSuccess(envelope) == "result" \in DOMAIN envelope /\ "error" \notin DOMAIN envelope

\* the call handed a request to the HTTP library
RequestMade == pc = "returned" /\ ~IsEmpty(request)

\* the backend received the request and answered it
BackendAnswered == RequestMade /\ request.reached

\* the names of the loaded manifest's tools
ManifestNames == {yaml_data.tools[i].name : i \in 1..Len(yaml_data.tools)}

\* the path template of the tool a call was dispatched to
CalledPath ==
    IF server = "MCPServer" THEN tools[call.tool_name].api_path
    ELSE IF server = "MCPRestApiServer" THEN tools[call.tool_name].instance.api_path
    ELSE call.tool_data.path

\* the spelling of the argument names and values that path templates use
NameChars == [petId |-> <<"p","e","t","I","d">>, id |-> <<"i","d">>]
ValueChars(value) == IF value = "42" THEN <<"4","2">> ELSE <<"7">>

\* the arguments that have a {name} placeholder at the start of s
PlaceholderAt(s, arguments) ==
    {n \in DOMAIN arguments \cap DOMAIN NameChars :
        arguments[n] # None /\ StartsWith(s, <<"{">> \o NameChars[n] \o <<"}">>)}

\* a path template with each {name} replaced by the value of argument name
RECURSIVE ResolvedPath(_, _)
ResolvedPath(path, arguments) ==
    IF path = <<>> THEN <<>>
    ELSE IF PlaceholderAt(path, arguments) # {}
    THEN LET n == CHOOSE n \in PlaceholderAt(path, arguments) : TRUE
         IN  ValueChars(arguments[n])
                 \o ResolvedPath(SubSeq(path, Len(NameChars[n]) + 3, Len(path)), arguments)
    ELSE <<Head(path)>> \o ResolvedPath(Tail(path), arguments)

\* the arguments a path template consumes
ConsumedByPath(path, arguments) ==
    {n \in DOMAIN arguments :
        \E i \in 1..Len(path) : n \in PlaceholderAt(SubSeq(path, i, Len(path)), arguments)}

EndsWith(s, suffix) ==
    /\ Len(suffix) <= Len(s)
    /\ SubSeq(s, Len(s) - Len(suffix) + 1, Len(s)) = suffix

-----------------------------------------------------------------------------
(* The claims about dispatch, checked under Spec *)

\* C1: a call of a tool name that the loaded manifest does not hold returns a
\* failure envelope (error, no result) and raises nothing, in MCPServer.execute_tool
\* and in the stdio handler handle_call_tool.
C1_UnknownToolYieldsFailureEnvelope ==
    (/\ pc = "returned"
     /\ server \in {"MCPServer", "MCPRestApiServer"}
     /\ call.tool_name \notin ManifestNames)
        => (reply.kind = "return" /\ IsFailure(Envelope))

\* C2: whenever the backend answers with a status >= 400, the dispatcher returns a
\* failure envelope, in every variant and whatever the body holds.
C2_HttpErrorYieldsFailureEnvelope ==
    (BackendAnswered /\ call.backend.status >= 400)
        => (reply.kind = "return" /\ IsFailure(Envelope))

\* C3: every envelope a dispatch returns holds exactly one of the members result
\* and error.
C3_ExactlyOneOfResultAndError ==
    Returned => (("result" \in DOMAIN Envelope) # ("error" \in DOMAIN Envelope))

\* C3's case: to_jsonrpc framed a backend answer that flags an error, next to
\* which a success envelope is the other shape
C3_Witness ==
    /\ Returned
    /\ server = "MCPServer"
    /\ BackendAnswered
    /\ call.backend.body.content = "object"
    /\ Get(call.backend.body.value, "error", FALSE)
    /\ IsFailure(Envelope)

\* C4: the URL of a request the backend receives has every {name} placeholder of
\* the tool's path replaced by the value of the argument of that name, and an
\* argument consumed into the path is in neither the query nor the body.
C4_PathPlaceholdersResolved ==
    BackendAnswered
        => /\ EndsWith(request.url, ResolvedPath(CalledPath, call.arguments))
           /\ ConsumedByPath(CalledPath, call.arguments) \cap DOMAIN request.payload = {}

\* C5: a failure envelope that ends a dispatch whose HTTP call failed (backend
\* not reached, or status >= 400) has code 500, a message that starts with
\* "Request failed:", and error.data with the url, method and parameters of the
\* request that was attempted.  Stated for the two dispatchers that catch the
\* failure themselves, the stdio DynamicTool and FastMCP.
C5_RequestFailureEnvelope ==
    (/\ Returned
     /\ server \in {"MCPRestApiServer", "FastMCPRestApiServer"}
     /\ RequestMade
     /\ IsFailure(Envelope)
     /\ (~request.reached \/ call.backend.status >= 400))
        => /\ Envelope.error.code = 500
           /\ Head(Envelope.error.message) = "Request failed: "
           /\ {"url", "method", "parameters"} \subseteq DOMAIN Envelope.error.data
           /\ Envelope.error.data.url = request.url
           /\ Upper(Envelope.error.data.method) = Upper(request.method)
           /\ Envelope.error.data.parameters = request.payload

\* C9: in a request the backend receives, the merged argument map goes into the
\* JSON-encoded body exactly when the tool's method is POST, PUT or PATCH, and
\* into the query parameters otherwise, in every dispatcher variant.
C9_BodyOrQueryByMethod ==
    BackendAnswered
        => /\ (Upper(request.method) \in BodyMethods) <=> (request.encoding = "json")
           /\ (Upper(request.method) \notin BodyMethods) <=> (request.encoding = "params")

\* C10: a success status with a body that is not JSON gives a success envelope
\* whose data is the raw text of the body, in every dispatcher variant.
C10_NonJsonBodyIsSuccess ==
    (/\ BackendAnswered
     /\ call.backend.status < 400
     /\ call.backend.body.content = "text")
        => /\ reply.kind = "return"
           /\ IsSuccess(Envelope)
           /\ Envelope.result.data = call.backend.body.text

\* the envelope FastMCP's _execute_tool returns for the tool, arguments and
\* backend outcome of the stdio call in hand
FastMCPEnvelopeOfCall ==
    _execute_tool(FastMCPConfig(Get(yaml_data, "api_info", EmptyDict)),
                  tools[call.tool_name].metadata, call.arguments,
                  call.backend).outcome.value.json_text_of

\* C11: for the same tool, arguments and backend outcome, the stdio
\* DynamicTool.invoke (framed by to_jsonrpc) and FastMCP's _execute_tool both
\* return a success envelope or both return a failure envelope.
C11_VariantsAgreeOnSuccess ==
    (/\ Returned
     /\ server = "MCPRestApiServer"
     /\ call.tool_name \in DOMAIN tools)
        => (IsSuccess(Envelope) <=> IsSuccess(FastMCPEnvelopeOfCall))

\* the argument map as the request of the call in hand carries it
Transmitted == transmitted(request.encoding, request.payload)

\* C14: no key with a null (None) value is part of the argument map of an
\* outgoing request: a call argument that is None, and an identity parameter
\* with no value, is left out and not sent as null, in every dispatcher variant.
C14_NoNullTransmitted ==
    BackendAnswered => \A key \in DOMAIN Transmitted : Transmitted[key] # None

\* C15: client_key, entity_key and user_key are in the outgoing request of every
\* dispatch, whatever the HTTP method (in the body for POST/PUT/PATCH, in the
\* query otherwise).
C15_IdentityKeysInRequest ==
    BackendAnswered => IdentityKeys \subseteq DOMAIN Transmitted

\* str.lstrip(c)
RECURSIVE LStrip(_, _)
LStrip(s, c) == IF s # <<>> /\ Head(s) = c THEN LStrip(Tail(s), c) ELSE s

\* base_url and path joined by exactly one '/'
JoinedUrl(base_url, path) == RStrip(base_url, "/") \o <<"/">> \o LStrip(path, "/")

\* C16: the request URL is the manifest's base_url and the tool's path joined by
\* exactly one '/', whether or not base_url ends with a slash and whether or not
\* the path starts with one.
C16_UrlJoinedByOneSlash ==
    BackendAnswered
        => request.url = JoinedUrl(Get(yaml_data.api_info, "base_url", <<>>), CalledPath)

\* a list call has returned the tools with their parameter schemas
Listed == pc = "listed"

\* the schema the list exposes for its i-th tool
ListedSchema(i) ==
    IF server = "MCPServer" THEN reply.value[i].parameters ELSE reply.value[i].inputSchema

\* the parameters of the loaded manifest's entry behind the i-th listed tool
ListedManifestParameters(i) ==
    IF server = "MCPServer" THEN tools[reply.value[i].name].tool_parameters
    ELSE tools[reply.value[i].name].instance.tool_parameters

IdentityNames == <<"client_key", "entity_key", "user_key">>

\* the endpoint-specific names of a list of names
EndpointSpecific(names) ==
    LET Specific(name) == ~InList(name, IdentityNames)
    IN  SelectSeq(names, Specific)

\* how often a name occurs in a list
Occurrences(name, names) == Cardinality({j \in 1..Len(names) : names[j] = name})

\* the identity properties come first with their fixed string type, and each
\* identity name occurs once among the properties and once in required
IdentityInjected(schema) ==
    /\ SubSeq(DictKeys(schema.properties), 1, 3) = IdentityNames
    /\ \A j \in 1..3 : schema.properties[j].value.type = "string"
    /\ SubSeq(schema.required, 1, 3) = IdentityNames
    /\ \A j \in 1..3 :
          /\ Occurrences(IdentityNames[j], DictKeys(schema.properties)) = 1
          /\ Occurrences(IdentityNames[j], schema.required) = 1

RequiredAmongProperties(parameters) ==
    LET Required(name) == InList(name, parameters.required)
    IN  SelectSeq(DictKeys(parameters.properties), Required)

-----------------------------------------------------------------------------
(* The claims about the manifest builder, checked under SpecGen *)

Generated == pc = "generated"

\* C6: in every tool entry of a generated manifest, parameters.required holds
\* client_key, entity_key and user_key, whatever the source operation declares.
C6_IdentityKeysRequired ==
    Generated
        => \A i \in 1..Len(yaml_structure.tools) :
              \A key \in IdentityKeys :
                  InList(key, yaml_structure.tools[i].parameters.required)

\* C7: a manifest built from operations with pairwise distinct (path, method)
\* pairs has pairwise distinct tool names.
C7_ToolNamesDistinct ==
    (/\ Generated
     /\ \A i, j \in 1..Len(endpoints) :
           i # j => <<endpoints[i].path, endpoints[i].method>>
                        # <<endpoints[j].path, endpoints[j].method>>)
        => \A i, j \in 1..Len(yaml_structure.tools) :
              i # j => yaml_structure.tools[i].name # yaml_structure.tools[j].name

\* the non-empty '/'-delimited segments of a path, each by its first and last place
SegmentSpans(path) ==
    {span \in (1..Len(path)) \X (1..Len(path)) :
        /\ span[1] <= span[2]
        /\ \A i \in span[1]..span[2] : path[i] # "/"
        /\ span[1] = 1 \/ path[span[1] - 1] = "/"
        /\ span[2] = Len(path) \/ path[span[2] + 1] = "/"}

\* those that do not start with '{'
ResourceSpans(path) == {span \in SegmentSpans(path) : path[span[1]] # "{"}

\* the last of them
LastResource(path) ==
    LET span == CHOOSE span \in ResourceSpans(path) :
                    \A other \in ResourceSpans(path) : other[1] <= span[1]
    IN  SubSeq(path, span[1], span[2])

\* a word capitalised: its first letter upper-cased, its other letters lower-cased
Capitalised(word) == <<UpperChar(Head(word))>> \o Lower(Tail(word))

\* the tool name the claim gives an operation, with `fallback` as the resource of
\* a path that has no segment to name it
ClaimedToolName(endpoint, fallback) ==
    IF endpoint.operation_id # <<>>
    THEN <<UpperChar(Head(endpoint.operation_id))>> \o Tail(endpoint.operation_id)
             \o <<"T","o","o","l">>
    ELSE Capitalised(Lower(endpoint.method))
             \o (IF ResourceSpans(endpoint.path) = {} THEN fallback
                 ELSE Capitalised(LastResource(endpoint.path)))
             \o <<"T","o","o","l">>

\* C8 as stated: a non-empty operation_id gives it with its first character
\* upper-cased and 'Tool' appended; otherwise the name is <Method><Resource>Tool,
\* Resource being the capitalised last path segment that does not start with '{',
\* or the literal token 'resource' when there is none.
C8_ToolNameWithLiteralResource ==
    Generated
        => \A i \in 1..Len(endpoints) :
              yaml_structure.tools[i].name
                  = ClaimedToolName(endpoints[i], <<"r","e","s","o","u","r","c","e">>)

\* C8 as amended: the same, but a path with no non-empty segment outside braces
\* gives the resource 'Resource', the fallback token capitalised like a segment
\* (GET /{id} -> GetResourceTool), and capitalising lower-cases the other letters
\* (GET /store/orderItems -> GetOrderitemsTool).
C8_ToolNameSynthesis ==
    Generated
        => \A i \in 1..Len(endpoints) :
              yaml_structure.tools[i].name
                  = ClaimedToolName(endpoints[i], <<"R","e","s","o","u","r","c","e">>)

\* C8's cases together: a manifest built from an operation with an operation id
\* and one whose path has only a parameter segment
C8_Witness ==
    /\ Generated
    /\ endpoints = <<GetPetById, GetById>>
    /\ yaml_structure.tools[1].name
           = <<"G","e","t","P","e","t","B","y","I","d","T","o","o","l">>
    /\ yaml_structure.tools[2].name
           = <<"G","e","t","R","e","s","o","u","r","c","e","T","o","o","l">>

\* the manifest the generator builds from its configuration and operations
BuiltManifest == generate_yaml_structure(self_api_config, endpoints)

\* C17: building a manifest, writing it as YAML (save_yaml_file) and loading it
\* again (load_yaml_data) gives a manifest identical field for field to the one
\* built, the order of the tools, of each tool's properties and of its required
\* names included.
C17_YamlRoundTrip ==
    pc = "loaded" => yaml_data = BuiltManifest

\* the names of the parameters an operation declares `in` a place, in source order
NamesIn(endpoint, place) ==
    LET Declared(param) == param.in = place
        declared == SelectSeq(endpoint.parameters, Declared)
    IN  [i \in 1..Len(declared) |-> declared[i].name]

\* those of them that are flagged required
RequiredIn(endpoint, place) ==
    LET Flagged(param) == param.in = place /\ param.required
        flagged == SelectSeq(endpoint.parameters, Flagged)
    IN  [i \in 1..Len(flagged) |-> flagged[i].name]

\* the properties of an object-typed JSON request-body schema, and its required
BodySchema(endpoint) ==
    IF IsEmpty(endpoint.request_body) \/ IsEmpty(endpoint.request_body.schema)
       \/ endpoint.request_body.schema.type # "object"
    THEN [properties |-> <<>>, required |-> <<>>]
    ELSE endpoint.request_body.schema

BodyNames(endpoint) == DictKeys(BodySchema(endpoint).properties)

RequiredInBody(endpoint) ==
    LET Flagged(name) == InList(name, BodySchema(endpoint).required)
    IN  SelectSeq(BodyNames(endpoint), Flagged)

\* a list of names with each name at the place of its first occurrence only
RECURSIVE FirstOccurrences(_)
FirstOccurrences(names) ==
    IF names = <<>> THEN <<>>
    ELSE LET front == FirstOccurrences(SubSeq(names, 1, Len(names) - 1))
         IN  IF InList(names[Len(names)], front) THEN front
             ELSE Append(front, names[Len(names)])

\* C18: for every operation the generated properties map holds exactly its path
\* parameters, then its query parameters, then the properties of an object-typed
\* JSON request-body schema, in that order, with no header or cookie parameter;
\* required lists the names flagged required in the source, one for each flagged
\* parameter, in the same order.
C18_PropertiesPathQueryBody ==
    Generated
        => \A i \in 1..Len(endpoints) :
              /\ DictKeys(yaml_structure.tools[i].parameters.properties)
                     = FirstOccurrences(NamesIn(endpoints[i], "path")
                                            \o NamesIn(endpoints[i], "query")
                                            \o BodyNames(endpoints[i]))
              /\ yaml_structure.tools[i].parameters.required
                     = RequiredIn(endpoints[i], "path") \o RequiredIn(endpoints[i], "query")
                           \o RequiredInBody(endpoints[i])

\* C18's cases: an operation with a query parameter declared before its path
\* parameter and with a JSON body, and one with a header parameter
C18_Witness ==
    /\ Generated
    /\ endpoints = <<PutPet, DeletePet>>
    /\ DictKeys(yaml_structure.tools[1].parameters.properties)
           = <<"petId", "limit", "client_key", "name", "status">>
    /\ DictKeys(yaml_structure.tools[2].parameters.properties) = <<"petId">>

-----------------------------------------------------------------------------
(* The claims about the parser, checked under SpecParse *)

\* extract_endpoints has returned the operations of the stored document
Extracted == pc = "extracted" /\ reply.kind = "return"

\* the paths object of the stored document
StoredPaths == Get(parser.spec, "paths", <<>>)

\* GET/POST/PUT/DELETE/PATCH/HEAD/OPTIONS, as a path item spells its keys
HttpVerbs ==
    {<<"g","e","t">>, <<"p","o","s","t">>, <<"p","u","t">>, <<"d","e","l","e","t","e">>,
     <<"p","a","t","c","h">>, <<"h","e","a","d">>, <<"o","p","t","i","o","n","s">>}

\* the (path, method) pairs present under paths: entry j of the item of path i
OperationKeys ==
    {key \in (1..Len(StoredPaths)) \X (1..3) :
        /\ key[2] <= Len(StoredPaths[key[1]].value)
        /\ Lower(StoredPaths[key[1]].value[key[2]].key) \in HttpVerbs}

\* C12: extract_endpoints returns exactly one descriptor for each (path, method)
\* pair present under paths: none is missing, no (path, upper-cased method) pair
\* occurs twice in the result, and a key that is no HTTP verb gives no descriptor.
C12_OneDescriptorPerOperation ==
    Extracted
        => /\ \A key \in OperationKeys :
                 \E k \in 1..Len(endpoints) :
                     /\ endpoints[k].path = StoredPaths[key[1]].key
                     /\ endpoints[k].method = Upper(StoredPaths[key[1]].value[key[2]].key)
           /\ \A k, l \in 1..Len(endpoints) :
                 k # l => <<endpoints[k].path, endpoints[k].method>>
                              # <<endpoints[l].path, endpoints[l].method>>
           /\ Len(endpoints) = Cardinality(OperationKeys)

\* a declared parameter is an array, in either style
DeclaredArray(param) ==
    \/ Get(Get(param, "schema", EmptyDict), "type", "") = "array"
    \/ Get(param, "type", "") = "array"

\* the item type a parameter declares: under schema.items, else under items,
\* else none, which reads as 'string'
DeclaredItemType(param) ==
    LET schema_items == Get(Get(param, "schema", EmptyDict), "items", EmptyDict)
        items == Get(param, "items", EmptyDict)
    IN  IF "type" \in DOMAIN schema_items THEN schema_items.type
        ELSE IF "type" \in DOMAIN items THEN items.type
        ELSE "string"

\* C13: the normalised type of an array parameter is 'array[T]', T being the item
\* type declared under schema.items.type (OpenAPI 3.x) or under items.type on the
\* parameter (Swagger 2.0), and 'string' only when neither declares one.
C13_ArrayItemType ==
    Extracted
        => \A key \in OperationKeys :
              LET path == StoredPaths[key[1]].key
                  entry == StoredPaths[key[1]].value[key[2]]
                  declared == Get(entry.value, "parameters", <<>>)
              IN  \E k \in 1..Len(endpoints) :
                      /\ endpoints[k].path = path
                      /\ endpoints[k].method = Upper(entry.key)
                      /\ Len(endpoints[k].parameters) = Len(declared)
                      /\ \A i \in 1..Len(declared) :
                            DeclaredArray(declared[i])
                                => endpoints[k].parameters[i].type
                                       = ArrayOf(DeclaredItemType(declared[i]))

\* fetch_swagger_spec has ended
Fetched == pc \in {"fetched", "refetched"}

\* the fetched document is an object with a swagger or openapi version string
\* and an info object with something in it
PassesBasicValidation ==
    /\ call.fetched.kind = "response"
    /\ call.fetched.status < 400
    /\ call.fetched.body.content = "object"
    /\ LET document == call.fetched.body.value
       IN  /\ \E field \in {"swagger", "openapi"} \cap DOMAIN document :
                  IsStr(document[field]) /\ document[field].str # <<>>
           /\ \A field \in {"swagger", "openapi"} \cap DOMAIN document :
                  IsStr(document[field])
           /\ ~IsEmpty(Get(document, "info", EmptyDict))

FetchFailedOnTheWire ==
    \/ call.fetched.kind = "unreachable"
    \/ call.fetched.status >= 400
    \/ call.fetched.body.content = "invalid"

\* the fetched document is not an object, has neither a swagger nor an openapi
\* field, or has no info member
DefectiveDocument ==
    /\ ~FetchFailedOnTheWire
    /\ \/ call.fetched.body.content # "object"
       \/ LET document == call.fetched.body.value
          IN  \/ {"swagger", "openapi"} \cap DOMAIN document = {}
              \/ "info" \notin DOMAIN document

\* C21: fetch_swagger_spec raises on a network failure, on an unparsable body
\* and on every fetched document that is not an object, has neither a swagger
\* nor an openapi field, or has no info; every fetch that raises leaves
\* parser.spec as it was, and extract_endpoints on a parser whose spec is unset
\* raises instead of returning operations.
C21_FailedFetchKeepsSpec ==
    /\ []((Fetched /\ (FetchFailedOnTheWire \/ DefectiveDocument)) => reply.kind = "raise")
    /\ []((pc = "extracted" /\ ~parser.loaded) => reply.kind = "raise")
    /\ [][(pc' \in {"fetched", "refetched"} /\ reply'.kind = "raise") => parser' = parser]_vars

\* C21's case: a parser that holds a specification fetched a defective document
\* and still holds the specification
C21_Witness ==
    /\ pc = "refetched"
    /\ DefectiveDocument
    /\ reply.kind = "raise"
    /\ parser.loaded

\* C22: every tool of a generated manifest has the operation's description when
\* that is non-empty, otherwise its summary when that is non-empty, and never an
\* empty description.
C22_DescriptionNeverEmpty ==
    Generated
        => \A i \in 1..Len(yaml_structure.tools) :
              LET tool == yaml_structure.tools[i]
                  endpoint == endpoints[i]
              IN  /\ endpoint.description # "" => tool.description = endpoint.description
                  /\ (endpoint.description = "" /\ endpoint.summary # "")
                         => tool.description = endpoint.summary
                  /\ tool.description # ""

\* C30: in the parameters schema of every tool of a generated manifest, each name
\* in required is a key of properties and stands in required at most once, also
\* when path, query and request-body parameters of the operation share a name.
C30_RequiredNamesOnceAndDeclared ==
    Generated
        => \A i \in 1..Len(yaml_structure.tools) :
              LET schema == yaml_structure.tools[i].parameters
              IN  \A k \in 1..Len(schema.required) :
                     /\ InList(schema.required[k], DictKeys(schema.properties))
                     /\ \A l \in 1..Len(schema.required) :
                            schema.required[l] = schema.required[k] => l = k

-----------------------------------------------------------------------------
(* More claims about the dispatchers, checked under Spec *)

\* a call of a tool of the manifest has ended on a dispatcher whose manifest
\* has an empty base_url
CalledWithoutBaseUrl ==
    /\ pc = "returned"
    /\ call.tool_name \in ManifestNames
    /\ Get(yaml_data.api_info, "base_url", <<>>) = <<>>

\* C24: when the loaded manifest's base_url is empty, every call of every tool of
\* the manifest returns a failure envelope, and no HTTP request reaches a backend.
C24_EmptyBaseUrlFails ==
    CalledWithoutBaseUrl
        => /\ reply.kind = "return"
           /\ IsFailure(Envelope)
           /\ ~BackendAnswered

\* C24's case: the manifest has no base_url, and the backend stood ready to
\* answer the call with 200
C24_Witness ==
    /\ CalledWithoutBaseUrl
    /\ call.backend.kind = "response"
    /\ call.backend.status = 200
    /\ call.backend.body.content = "object"
    /\ IsFailure(Envelope)

\* C25: in every dispatcher variant every envelope carries an id; when the
\* arguments of the call include id, the envelope's id is that value, on success
\* and on failure, and id is not among the parameters sent to the backend.
C25_EnvelopeIdIsCallId ==
    Returned
        => /\ "id" \in DOMAIN Envelope
           /\ "id" \in DOMAIN call.arguments
                 => /\ Envelope.id = call.arguments.id
                    /\ RequestMade => "id" \notin DOMAIN request.payload

\* the method of the tool a call was dispatched to
CalledMethod ==
    IF server = "MCPServer" THEN tools[call.tool_name].method
    ELSE IF server = "MCPRestApiServer" THEN tools[call.tool_name].instance.method
    ELSE call.tool_data.method

\* C26: after a manifest is loaded, the tool table of the dispatcher, and the
\* list it returns, has as many tools as the manifest's tools list has entries,
\* and a call by the name of a manifest entry is executed with the method and
\* the path of that entry.
C26_OneToolPerManifestEntry ==
    /\ (pc = "idle" /\ server \in {"MCPServer", "MCPRestApiServer"})
          => Cardinality(DOMAIN tools) = Len(yaml_data.tools)
    /\ Listed => Len(reply.value) = Len(yaml_data.tools)
    /\ (pc = "returned" /\ call.tool_name \in ManifestNames)
          => \A i \in 1..Len(yaml_data.tools) :
                yaml_data.tools[i].name = call.tool_name
                    => /\ CalledMethod = yaml_data.tools[i].method
                       /\ CalledPath = yaml_data.tools[i].path

-----------------------------------------------------------------------------
(* The claims about overlapping calls, checked under SpecOverlap *)

\* the outcome of caller c's call on a dispatcher that was just started on the
\* manifest file and serves no other call
OutcomeAlone(c) ==
    LET data == yaml_safe_load(yaml_file)
        api_info == Get(data, "api_info", EmptyDict)
        tool_list == Get(data, "tools", <<>>)
    IN  CASE server = "MCPServer" ->
                 execute_tool(_generate_tools_from_yaml(EmptyDict, tool_list,
                                                        MCPServerConfig(api_info)),
                              call[c].tool_name, call[c].arguments,
                              call[c].backend).outcome
          [] server = "MCPRestApiServer" ->
                 handle_call_tool(_create_tool_instances(EmptyDict, tool_list,
                                                         MCPConfig(api_info)),
                                  call[c].tool_name, call[c].arguments,
                                  call[c].backend).outcome
          [] server = "FastMCPRestApiServer" ->
                 _execute_tool(FastMCPConfig(api_info), tool_list[call[c].read.index],
                               call[c].arguments, call[c].backend).outcome

\* C23: no step of a dispatch, successful or failed, changes the loaded manifest
\* data, the tool table or the bound configuration, and every call, whatever
\* other calls it overlaps with, returns the envelope it returns when it runs
\* alone on the freshly loaded dispatcher.
C23_DispatchChangesNoState ==
    /\ [][pc[1] # "new" => UNCHANGED <<yaml_data, tools, config>>]_vars
    /\ [](\A c \in Callers : pc[c] = "returned" => reply[c] = OutcomeAlone(c))

\* C23's case: two calls that overlapped have both returned, one having reached
\* its backend and one having failed to
C23_Witness ==
    /\ pc[1] = "returned" /\ pc[2] = "returned"
    /\ call[1].overlapped
    /\ call[1].tool_name = call[2].tool_name
    /\ ~IsEmpty(request[1]) /\ ~IsEmpty(request[2])
    /\ request[1].reached /\ call[2].backend.kind = "unreachable"

-----------------------------------------------------------------------------
(* The claim about the server registry, checked under SpecRegistry *)

\* C27: after any sequence of start_server, stop_server and
\* create_server_from_yaml requests, every server instance whose is_running is
\* true has an entry under its server_name in the registry, and the instance a
\* stop_server request has just stopped has is_running false and no registry
\* entry under its name; two instances may share a server_name, and
\* create_server_from_yaml may rename an instance.
C27_RunningInstancesAreRegistered ==
    /\ \A pk \in DOMAIN db.MCPServerInstance :
           db.MCPServerInstance[pk].is_running
               => db.MCPServerInstance[pk].server_name \in DOMAIN mcp_registry
    /\ (call.operation = "stop_server" /\ reply.status = "success")
           => /\ ~db.MCPServerInstance[call.pk].is_running
              /\ db.MCPServerInstance[call.pk].server_name \notin DOMAIN mcp_registry

-----------------------------------------------------------------------------
(* The claims about the generation task, checked under SpecTask *)

\* a run of the task for the stored API configuration has returned
TaskReturned == pc = "returned" /\ call.api_config_id \in DOMAIN db.APIConfiguration

\* the id of the configuration's GeneratedYAMLFile row
YamlFileId == CHOOSE id \in yaml_files_of(db.GeneratedYAMLFile, call.api_config_id) : TRUE

\* C28: when generate_yaml_from_swagger returns for an existing API
\* configuration, the row's generation_status is 'completed' and its
\* error_message empty if the task returned status success, and the status is
\* 'failed' with the returned error text as error_message if it returned status
\* error; the row is never left 'pending' or 'processing'.
C28_StatusFollowsResult ==
    TaskReturned
        => LET row == db.GeneratedYAMLFile[YamlFileId]
           IN  /\ yaml_files_of(db.GeneratedYAMLFile, call.api_config_id) # {}
               /\ reply.status = "success"
                     => row.generation_status = "completed" /\ row.error_message = ""
               /\ reply.status = "error"
                     => /\ row.generation_status = "failed"
                        /\ row.error_message = reply.message
               /\ row.generation_status \notin {"pending", "processing"}

\* C28's case: a run that found the row 'failed' with an error text has
\* returned success
C28_Witness ==
    /\ TaskReturned
    /\ ~call.created
    /\ call.found.generation_status = "failed"
    /\ call.found.error_message # ""
    /\ reply.status = "success"
    /\ db.GeneratedYAMLFile[YamlFileId].error_message = ""

\* C29: after generate_yaml_from_swagger succeeds, the APIEndpoint rows of the
\* YAML file are exactly the operations of the specification the run parsed: one
\* row per (path, method) of them and no row for any other operation, also when
\* an earlier run parsed a specification with more operations.
C29_EndpointRowsAreParsedOperations ==
    (TaskReturned /\ reply.status = "success")
        => {<<key[2], key[3]>> : key \in {k \in DOMAIN db.APIEndpoint : k[1] = YamlFileId}}
              = {<<endpoints[i].path, endpoints[i].method>> : i \in 1..Len(endpoints)}

=============================================================================
